---------------------------- MODULE Spec2Model ----------------------------
(***************************************************************************)
(* Verification model of the UI runtime: the frame scheduler               *)
(* (utils/scheduler), the Component / HookComponent runtime                *)
(* (utils/component, utils/hooks) and the virtual-DOM reconciler           *)
(* (utils/vdom).                                                           *)
(*                                                                         *)
(* JavaScript is single threaded: an external call (an event handler) runs *)
(* to completion, and a frame callback (processTaskQueue) runs every task  *)
(* of its batch before anything else happens.  A flush is modelled task by *)
(* task (the variable "tasks" is the local array of processTaskQueue), and *)
(* external calls are enabled only between flushes.                        *)
(*                                                                         *)
(* Specifications: SpecSched (scheduler), SpecPatch (reconciler), Spec     *)
(* (a counter HookComponent), SpecHooks (components using useMemo,         *)
(* useRef, useEffect and useContext under updateProps, setState, update    *)
(* and destroy), SpecContext (a context, its subscribers and a consumer),  *)
(* SpecCache (the component cache of the html template tag under renders   *)
(* and navigation), SpecStore (the Store and its subscribers), SpecRouter  *)
(* (navigations and the suspended render calls of the Router) and          *)
(* SpecSchedFair (SpecSched with every requested frame called).            *)
(***************************************************************************)
EXTENDS Integers, Sequences, FiniteSets, TLC

VARIABLES
    sched,        \* module state of utils/scheduler plus the browser's frame callbacks
    tasks,        \* processTaskQueue: the tasks of the running flush not yet executed
    flushNo,      \* number of flushes (frame callbacks) started so far
    execLog,      \* history: what each flush executed, in order
    submittedAt,  \* history: task id -> value of flushNo when it was passed to scheduleTask
    cancelled,    \* history: task ids for which cancelTask returned true
    lastOp,       \* history: the last call made and what it returned
    dom,          \* the platform's nodes: node id -> kind, tag, attributes, text, children, parent
    comp,         \* the fields of the component instance
    lastPatch,    \* history: the last replaceContents call (DOM calls made, exception)
    hist,         \* history: the setState calls made and what they should amount to
    context,      \* the context object the instance consumes: value and subscribers
    events,       \* history: what the instance's hooks did in the last step that ran its code
    cache,        \* utils/jsx-vdom: componentCache, componentCounter; the instances and trees
    store,        \* utils/store: the fields of the Store, and what its subscribers received
    router        \* utils/router: the fields of the Router, the page instances, the render calls suspended

schedVars == <<sched, tasks, flushNo, execLog, submittedAt, cancelled>>
vars == <<sched, tasks, flushNo, execLog, submittedAt, cancelled, lastOp, dom, comp, lastPatch,
          hist, context, events, cache, store, router>>

-----------------------------------------------------------------------------
(* Bounds *)

\* scheduleTask is called at most MaxTaskId times in a behaviour
MaxTaskId == 3
\* longest list passed to batchUpdates
MaxBatch == 2
\* setState and update calls made on the instance in a behaviour
MaxCalls == 4
\* largest value passed to a setter
MaxSet == 2
\* longest list of children without keys in a rendered tree
MaxChildren == 2
\* platform nodes created in a behaviour
MaxNodes == 7
\* subscriber closures created for the context in a behaviour
MaxSubs == 2
\* calls made in a behaviour on an instance with props, effects, memos or a context
MaxOps == 2

-----------------------------------------------------------------------------
(* utils/scheduler *)

\* A ScheduledTask closure.  id is a history tag (the id scheduleTask returned
\* for it), kind/beh/arg/updates say what the closure does when called.
Task(kind, beh, arg, updates) ==
    [id |-> 0, kind |-> kind, beh |-> beh, arg |-> arg, updates |-> updates]

\* () => {}  (what cancelTask leaves in the queue)
NoOp == Task("noop", "ok", 0, <<>>)

\* the state the module is loaded with
SchedInit ==
    [taskQueue |-> <<>>, taskMap |-> <<>>, frameScheduled |-> FALSE,
     nextTaskId |-> 1, rafCallbacks |-> 0]

\* history: what the DOM calls of one operation did
NoStats == [created |-> 0, removed |-> 0, moved |-> 0, attrs |-> 0, texts |-> 0]

\* A world is what a call can read and write: w.s the scheduler, w.c the
\* fields of the component instance, w.d the
\* platform's nodes, w.log the execution history; w.retId / w.retOk is the
\* value the last call returned, w.vn the virtual node the last call bound,
\* w.err says that an exception was thrown and is propagating, w.st counts
\* the DOM calls made, w.ctx is the context object, w.ev what the hooks of
\* the instance did during the call.
World(s, c, d, log) ==
    [s |-> s, c |-> c, d |-> d, log |-> log, retId |-> 0, retOk |-> FALSE,
     vn |-> <<>>, err |-> FALSE, st |-> NoStats, ctx |-> context, ev |-> <<>>]

\* statement sequencing: Op is what follows, run in the world w the
\* statements before it left
Then(w, Op(_)) == Op(w)

\* history: no replaceContents call was made yet
NoPatch == [n |-> 0, st |-> NoStats, err |-> FALSE]

\* no component instance was constructed
NoComponent == [element |-> 0]

\* createContext(defaultValue): value and the Set of subscribers, in
\* insertion order; made counts the subscriber closures created so far
createContext(defaultValue) ==
    [value |-> defaultValue, subscribers |-> <<>>, made |-> 0]

\* history of the setState and update() calls made on the instance
NoHist == [calls |-> 0, incs |-> 0, burstAt |-> 0, pure |-> TRUE, expected |-> 0,
           updates |-> 0, updAt |-> 0, updRun |-> 0, destroyedAt |-> 0]

\* the components whose render function returns a template with components
Owners == {"list", "item", "slot"}

\* a component instance as the cache sees it: its props, and how often
\* destroy() was called on it (history)
Instance(props) == [props |-> props, destroyed |-> 0]

\* utils/jsx-vdom after module load (componentCache empty, componentCounter
\* 0); instance 1 is the component the owner "slot" created and holds;
\* trees[o] are the component nodes of the last tree of owner o; renders
\* counts the renders made (history)
NoCache ==
    [entries |-> <<>>, componentCounter |-> 0, instances |-> <<Instance(<<>>)>>,
     trees |-> [o \in Owners |-> <<>>], renders |-> 0]

\* a state no subscriber of the store was called with yet
NotDelivered == [a |-> -1, b |-> -1]

\* new Store({a: 0, b: 0}); made counts the subscribe calls, delivered[i]
\* is the state the i-th callback subscribed was last called with (history)
NewStore ==
    [state |-> [a |-> 0, b |-> 0], subscribers |-> <<>>, made |-> 0, delivered |-> <<>>]

\* the paths of the routes added: router.add("/a", ...).addLazy("/b", ...)
Paths == {"/a", "/b"}
Lazy(route) == route = "/b"

\* new Router(container), the routes added, the page at "/a".  No route
\* ("") is current, no route has an instance (0), the container is empty
\* (0); instances are the page components constructed so far (history:
\* route, number of destroy() calls); runs are the render() calls suspended
\* at an await, in the order they got there
NewRouter ==
    [location |-> "/a", currentRoute |-> "", currentInstance |-> [p \in Paths |-> 0],
     container |-> 0, instances |-> <<>>, runs |-> <<>>, navigations |-> 0]

\* mutant: every call requests a frame
scheduleTask_AlwaysFrame(w, task) ==
    [w EXCEPT !.s = [taskQueue |-> Append(w.s.taskQueue, [task EXCEPT !.id = w.s.nextTaskId]),
                     taskMap |-> (w.s.nextTaskId :> Len(w.s.taskQueue) + 1) @@ w.s.taskMap,
                     frameScheduled |-> TRUE,
                     nextTaskId |-> w.s.nextTaskId + 1,
                     rafCallbacks |-> w.s.rafCallbacks + 1],
              !.retId = w.s.nextTaskId]

\* mutant: the task is put at the front of the queue
scheduleTask_Unshift(w, task) ==
    [w EXCEPT !.s = [taskQueue |-> <<[task EXCEPT !.id = w.s.nextTaskId]>> \o w.s.taskQueue,
                     taskMap |-> (w.s.nextTaskId :> 1) @@
                                 [i \in DOMAIN w.s.taskMap |-> w.s.taskMap[i] + 1],
                     frameScheduled |-> TRUE,
                     nextTaskId |-> w.s.nextTaskId + 1,
                     rafCallbacks |-> IF w.s.frameScheduled
                                      THEN w.s.rafCallbacks
                                      ELSE w.s.rafCallbacks + 1],
              !.retId = w.s.nextTaskId]

\* scheduleTask(task): push, remember the index, request a frame if none is
\* requested, return the id.  (Indices are 1-based here, 0-based in the code.)
scheduleTask(w, task) ==
    [w EXCEPT !.s = [taskQueue |-> Append(w.s.taskQueue, [task EXCEPT !.id = w.s.nextTaskId]),
                     taskMap |-> (w.s.nextTaskId :> Len(w.s.taskQueue) + 1) @@ w.s.taskMap,
                     frameScheduled |-> TRUE,
                     nextTaskId |-> w.s.nextTaskId + 1,
                     rafCallbacks |-> IF w.s.frameScheduled
                                      THEN w.s.rafCallbacks
                                      ELSE w.s.rafCallbacks + 1],
              !.retId = w.s.nextTaskId]

\* mutant: the task is dropped from the map but left in the queue
cancelTask_KeepTask(w, taskId) ==
    IF taskId \in DOMAIN w.s.taskMap
    THEN [w EXCEPT !.s.taskMap = [i \in DOMAIN w.s.taskMap \ {taskId} |-> w.s.taskMap[i]],
                   !.retOk = TRUE]
    ELSE [w EXCEPT !.retOk = FALSE]

\* cancelTask(taskId): replace the queued task by a no-op and forget the id
cancelTask(w, taskId) ==
    IF taskId \in DOMAIN w.s.taskMap
    THEN [w EXCEPT !.s.taskQueue[w.s.taskMap[taskId]] = NoOp,
                   !.s.taskMap = [i \in DOMAIN w.s.taskMap \ {taskId} |-> w.s.taskMap[i]],
                   !.retOk = TRUE]
    ELSE [w EXCEPT !.retOk = FALSE]

\* mutant: one task per update instead of one task for the group
RECURSIVE batchUpdates_OneTaskEach(_, _)
batchUpdates_OneTaskEach(w, updates) ==
    IF updates = <<>> THEN w
    ELSE batchUpdates_OneTaskEach(
             scheduleTask(w, Task("batch", "ok", 0, <<Head(updates)>>)), Tail(updates))

\* batchUpdates(updates): one task that calls every update in list order
batchUpdates(w, updates) == scheduleTask(w, Task("batch", "ok", 0, updates))

\* An update closure of a batchUpdates list: fn says what it does, v is its
\* argument; u and of are history tags (it is the u-th of a list of `of`).
Update(fn, v, u, of) == [fn |-> fn, v |-> v, u |-> u, of |-> of]

\* history: task.id ran in the current flush (u = 0: the task itself,
\* otherwise the u-th update of the list of `of` updates it was given)
Logged(w, task, u, of) ==
    [w EXCEPT !.log = Append(@, [id |-> task.id, flush |-> flushNo, u |-> u,
                                 of |-> of, beh |-> task.beh, kind |-> task.kind])]

\* history: the instance did something during the call (a render, a hook's
\* return, factory, effect or cleanup, a notification): kind says what, u
\* which slot or subscriber, of the value involved
Event(w, kind, u, of) == [w EXCEPT !.ev = Append(@, [kind |-> kind, u |-> u, of |-> of])]

\* the slot of the instance's useState call: the index the setter closure
\* holds, plus one
StateSlot(cls) == IF cls = "Memo" THEN 2 ELSE 1

\* the number NaN in a state slot
NotANumber == -1

\* what a setter argument makes of the value prev
Apply(newState, prev) == IF newState.fn = "inc" THEN prev + 1 ELSE newState.v

\* One update of a batchUpdates list is called.  "log" is an update that
\* only leaves its trace; "inc" and "set" are the updateFn closures of
\* useState's setter for the slot at index 0:
\*   nextState = typeof newState === 'function' ? newState(hookStates[index]) : newState
\*   if (hookStates[index] !== nextState) hookStates[index] = nextState
\* with newState = prev => prev + 1 ("inc") or the value v ("set").
\* In a subclass whose render calls another hook first the setter's index is
\* 1 (StateSlot is index + 1).  When the array is shorter than that (destroy
\* emptied it), prev is undefined and the assignment extends the array:
\* undefined + 1 is NaN, the elements skipped are holes.
runUpdate(w, task, update) ==
    IF update.fn = "log" THEN Logged(w, task, update.u, update.of)
    ELSE IF StateSlot(w.c.cls) <= Len(w.c.hookStates)
    THEN [Logged(w, task, update.u, update.of) EXCEPT
            !.c.hookStates[StateSlot(w.c.cls)] =
                IF @ # Apply(update, @) THEN Apply(update, @) ELSE @]
    ELSE [Logged(w, task, update.u, update.of) EXCEPT
            !.c.hookStates = [i \in 1..StateSlot(w.c.cls) |->
                                IF i <= Len(w.c.hookStates) THEN w.c.hookStates[i]
                                ELSE IF i < StateSlot(w.c.cls) THEN "undefined"
                                ELSE IF update.fn = "inc" THEN NotANumber
                                ELSE update.v],
            !.c.slotTypes = [i \in 1..StateSlot(w.c.cls) |->
                                IF i <= Len(w.c.slotTypes) THEN w.c.slotTypes[i]
                                ELSE IF i < StateSlot(w.c.cls) THEN "hole"
                                ELSE "state"]]

\* the closure of batchUpdates: for (const update of updates) update()
RECURSIVE runUpdates(_, _, _)
runUpdates(w, task, us) ==
    IF us = <<>> THEN w
    ELSE runUpdates(runUpdate(w, task, Head(us)), task, Tail(us))

-----------------------------------------------------------------------------
(* The platform's node tree: the DOM calls the reconciler makes *)

\* a node as document.createElement / createTextNode / createDocumentFragment
\* returns it
DomNode(kind, tag, text) ==
    [kind |-> kind, tag |-> tag, attrs |-> <<>>, text |-> text, kids |-> <<>>,
     parent |-> 0]

Without(seq, x) == SelectSeq(seq, LAMBDA y : y # x)
IndexOf(seq, x) == CHOOSE i \in DOMAIN seq : seq[i] = x
InsertAt(seq, i, xs) == SubSeq(seq, 1, i - 1) \o xs \o SubSeq(seq, i, Len(seq))
Range(seq) == {seq[i] : i \in DOMAIN seq}

\* an exception is thrown: the calls that would follow are not made
Throw(w) == [w EXCEPT !.err = TRUE]

createNode(w, kind, tag, text) ==
    IF w.err THEN w
    ELSE [w EXCEPT !.d = Append(@, DomNode(kind, tag, text)),
                   !.retId = Len(w.d) + 1,
                   !.st.created = @ + 1]

RECURSIVE IsInclusiveAncestor(_, _, _)
IsInclusiveAncestor(d, a, n) ==
    n # 0 /\ (a = n \/ IsInclusiveAncestor(d, a, d[n].parent))

\* d with node n taken out of its parent
Detached(d, n) ==
    IF d[n].parent = 0 THEN d
    ELSE [d EXCEPT ![d[n].parent].kids = Without(@, n), ![n].parent = 0]

\* the element after x in seq, 0 when x is the last
NextIn(seq, x) == IF IndexOf(seq, x) < Len(seq) THEN seq[IndexOf(seq, x) + 1] ELSE 0

\* the nodes an insertion of node puts in place: the children of a
\* DocumentFragment, otherwise the node
Moved(d, node) == IF d[node].kind = "fragment" THEN d[node].kids ELSE <<node>>

\* d with those nodes taken out of where they are
Lifted(d, node) ==
    IF d[node].kind = "fragment" THEN [d EXCEPT ![node].kids = <<>>]
    ELSE Detached(d, node)

\* d with nodes put among the children of parent, before ref (0: at the end)
Placed(d, parent, nodes, ref) ==
    [n \in DOMAIN d |->
        IF n = parent
        THEN [d[n] EXCEPT !.kids = InsertAt(@, IF ref = 0 THEN Len(@) + 1
                                                ELSE IndexOf(@, ref), nodes)]
        ELSE IF n \in Range(nodes) THEN [d[n] EXCEPT !.parent = parent]
        ELSE d[n]]

\* parent.insertBefore(node, ref), ref = 0 for null.  A DocumentFragment
\* hands over its children; HierarchyRequestError and NotFoundError as in
\* the DOM standard.
insertBefore(w, parent, node, ref) ==
    IF w.err THEN w
    ELSE IF w.d[parent].kind = "text" \/ IsInclusiveAncestor(w.d, node, parent)
    THEN Throw(w)
    ELSE IF ref # 0 /\ w.d[ref].parent # parent
    THEN Throw(w)
    ELSE [w EXCEPT !.d = Placed(Lifted(w.d, node), parent, Moved(w.d, node),
                                IF ref = node /\ ref # 0
                                THEN NextIn(w.d[parent].kids, node) ELSE ref)]

appendChild(w, parent, node) == insertBefore(w, parent, node, 0)

\* parent.removeChild(child): NotFoundError unless child is a child of parent
removeChild(w, parent, child) ==
    IF w.err THEN w
    ELSE IF w.d[child].parent # parent THEN Throw(w)
    ELSE [w EXCEPT !.d = Detached(w.d, child), !.st.removed = @ + 1]

\* parent.replaceChild(node, old)
replaceChild(w, parent, node, old) ==
    removeChild(insertBefore(w, parent, node, old), parent, old)

\* el.setAttribute(name, value): only an Element has the method
setAttribute(w, el, name, value) ==
    IF w.err THEN w
    ELSE IF w.d[el].kind # "element" THEN Throw(w)
    ELSE [w EXCEPT !.d[el].attrs = (name :> value) @@ @, !.st.attrs = @ + 1]

\* el.removeAttribute(name)
removeAttribute(w, el, name) ==
    IF w.err THEN w
    ELSE IF w.d[el].kind # "element" THEN Throw(w)
    ELSE [w EXCEPT !.d[el].attrs = [a \in DOMAIN @ \ {name} |-> @[a]],
                   !.st.attrs = @ + 1]

\* text.nodeValue = value (the setter does nothing on a node that is no Text)
setNodeValue(w, el, value) ==
    IF w.err THEN w
    ELSE IF w.d[el].kind # "text" THEN [w EXCEPT !.st.texts = @ + 1]
    ELSE [w EXCEPT !.d[el].text = value, !.st.texts = @ + 1]

-----------------------------------------------------------------------------
(* utils/vdom *)

Undefined == "#undefined"
\* the boolean prop values true and false (every other value is a string)
True == "#true"
False == "#false"

\* x === y for the values a prop can take (the text NaN stands for the
\* number NaN, which differs from itself)
StrictEq(x, y) == x = y /\ x # "NaN"

\* a key that starts with "on" / with "data-"
IsEventProp(key) == key \in {"onclick"}
isDataAttribute(key) == key \in {"data-id"}

\* VNode: one record shape for the three node types; el = 0 is "no el"
Null == [type |-> "null", tagName |-> "", props |-> <<>>, children |-> <<>>,
         key |-> Undefined, text |-> "", el |-> 0]

createTextNode(text) == [Null EXCEPT !.type = "text", !.text = text]

\* createElement(tagName, props, ...children): key is props.key
createElement(tagName, props, children) ==
    [Null EXCEPT !.type = "element", !.tagName = tagName, !.props = props,
                 !.children = children,
                 !.key = IF "key" \in DOMAIN props THEN props["key"] ELSE Undefined]

\* one iteration of the loop of setProps
setProp(w, el, key, value) ==
    IF IsEventProp(key) \/ key = "key" THEN w
    ELSE IF key = "className" THEN setAttribute(w, el, "class", value)
    ELSE IF isDataAttribute(key) THEN setAttribute(w, el, key, value)
    ELSE IF value \in {True, False}
    THEN (IF value = True THEN setAttribute(w, el, key, "") ELSE w)
    ELSE setAttribute(w, el, key, value)

RECURSIVE setPropsOf(_, _, _, _)
setPropsOf(w, el, props, keys) ==
    IF keys = {} THEN w
    ELSE LET key == CHOOSE k \in keys : TRUE
         IN setPropsOf(setProp(w, el, key, props[key]), el, props, keys \ {key})

\* setProps(el, props)
setProps(w, el, props) == setPropsOf(w, el, props, DOMAIN props)

\* first loop of updateProps: props of the old node that are gone
removeOldProp(w, el, newProps, key) ==
    IF IsEventProp(key) THEN w
    ELSE IF key \notin DOMAIN newProps
    THEN removeAttribute(w, el, IF key = "className" THEN "class" ELSE key)
    ELSE w

\* second loop of updateProps: props of the new node
setNewProp(w, el, oldProps, key, value) ==
    IF IsEventProp(key) THEN w
    ELSE IF key \in DOMAIN oldProps /\ StrictEq(oldProps[key], value) THEN w
    ELSE IF key = "className" THEN setAttribute(w, el, "class", value)
    ELSE IF isDataAttribute(key) THEN setAttribute(w, el, key, value)
    ELSE IF value \in {True, False}
    THEN (IF value = True THEN setAttribute(w, el, key, "")
          ELSE removeAttribute(w, el, key))
    ELSE setAttribute(w, el, key, value)

RECURSIVE removeOldProps(_, _, _, _)
removeOldProps(w, el, newProps, keys) ==
    IF keys = {} THEN w
    ELSE LET key == CHOOSE k \in keys : TRUE
         IN removeOldProps(removeOldProp(w, el, newProps, key), el, newProps,
                           keys \ {key})

RECURSIVE setNewProps(_, _, _, _, _)
setNewProps(w, el, oldProps, newProps, keys) ==
    IF keys = {} THEN w
    ELSE LET key == CHOOSE k \in keys : TRUE
         IN setNewProps(setNewProp(w, el, oldProps, key, newProps[key]), el,
                        oldProps, newProps, keys \ {key})

\* updateProps(el, oldProps, newProps)
updateProps(w, el, oldProps, newProps) ==
    setNewProps(removeOldProps(w, el, newProps, DOMAIN oldProps), el, oldProps,
                newProps, DOMAIN newProps)

RECURSIVE createRealNode(_, _)
RECURSIVE createChildren(_, _, _, _)

\* the loop of createRealNode: for (const child of children)
\*   el.appendChild(createRealNode(child));  w.vn: the children, bound
createChildren(w, el, children, done) ==
    IF children = <<>> \/ w.err THEN [w EXCEPT !.vn = done]
    ELSE Then(createRealNode(w, Head(children)), LAMBDA w1 :
              createChildren(appendChild(w1, el, w1.retId), el, Tail(children),
                             Append(done, w1.vn)))

\* createRealNode(vnode): returns the node (w.retId) and binds vnode (w.vn)
createRealNode(w, vnode) ==
    IF w.err THEN w
    ELSE IF vnode.type = "text"
    THEN Then(createNode(w, "text", "", vnode.text), LAMBDA w1 :
              [w1 EXCEPT !.vn = [vnode EXCEPT !.el = w1.retId]])
    ELSE Then(IF vnode.tagName = "fragment"
              THEN createNode(w, "fragment", "", "")
              ELSE createNode(w, "element", vnode.tagName, ""), LAMBDA w1 :
         Then(createChildren(IF vnode.tagName = "fragment" THEN w1
                             ELSE setProps(w1, w1.retId, vnode.props),
                             w1.retId, vnode.children, <<>>), LAMBDA w2 :
              [w2 EXCEPT !.vn = [vnode EXCEPT !.el = w1.retId, !.children = w2.vn],
                         !.retId = w1.retId]))

\* getVNodeKey(vnode, index) of patchChildren, index counted from 0
getVNodeKey(vnode, index) ==
    IF vnode.type = "element" /\ vnode.key # Undefined
    THEN <<"key", vnode.key>>
    ELSE <<"position", index>>

\* "Index old children by their keys": the index (from 0) the maps hold for
\* newKey is that of the last old child with the key
lastIndexOf(oldChildren, newKey) ==
    CHOOSE i \in 0..(Len(oldChildren) - 1) :
        /\ getVNodeKey(oldChildren[i + 1], i) = newKey
        /\ \A j \in (i + 1)..(Len(oldChildren) - 1) :
              getVNodeKey(oldChildren[j + 1], j) # newKey

\* oldKeyToIndexMap.get(newKey) || -1: the index (from 0) of the last old
\* child with that key, and -1 in place of index 0
oldIndexOf(oldChildren, newKey) ==
    IF lastIndexOf(oldChildren, newKey) = 0 THEN -1
    ELSE lastIndexOf(oldChildren, newKey)

\* oldKeyToNodeMap.get(newKey): the last old child with that key
oldChildOf(oldChildren, newKey) == oldChildren[1 + lastIndexOf(oldChildren, newKey)]

OldKeys(oldChildren) ==
    {getVNodeKey(oldChildren[i + 1], i) : i \in 0..(Len(oldChildren) - 1)}

RECURSIVE patch(_, _, _, _)
RECURSIVE patchChildren(_, _, _, _)
RECURSIVE patchEachChild(_, _, _, _)

\* "If node types differ, replace the old node" (also: tag names differ)
replaceNode(w, oldVNode, newVNode) ==
    Then(createRealNode(w, newVNode), LAMBDA w1 :
         [(IF ~w1.err /\ oldVNode.el # 0 /\ w1.d[oldVNode.el].parent # 0
           THEN replaceChild(w1, w1.d[oldVNode.el].parent, w1.retId, oldVNode.el)
           ELSE w1) EXCEPT !.vn = w1.vn])

\* patch(oldVNode, newVNode, parentEl): w.vn is newVNode as the call leaves it
patch(w, oldVNode, newVNode, parentEl) ==
    IF w.err THEN w
    ELSE IF oldVNode = Null
    THEN (IF newVNode # Null
          THEN Then(createRealNode(w, newVNode), LAMBDA w1 :
                    [appendChild(w1, parentEl, w1.retId) EXCEPT !.vn = w1.vn])
          ELSE [w EXCEPT !.vn = newVNode])
    ELSE IF newVNode = Null
    THEN [(IF oldVNode.el # 0 THEN removeChild(w, parentEl, oldVNode.el) ELSE w)
             EXCEPT !.vn = newVNode]
    ELSE IF oldVNode.type # newVNode.type
    THEN replaceNode(w, oldVNode, newVNode)
    ELSE IF /\ oldVNode.type = "element"
            /\ oldVNode.tagName # newVNode.tagName
            /\ oldVNode.tagName # "fragment"
            /\ newVNode.tagName # "fragment"
    THEN replaceNode(w, oldVNode, newVNode)
    ELSE IF newVNode.type = "text"
    THEN [(IF newVNode.text # oldVNode.text /\ oldVNode.el # 0
           THEN setNodeValue(w, oldVNode.el, newVNode.text)
           ELSE w) EXCEPT !.vn = [newVNode EXCEPT !.el = oldVNode.el]]
    ELSE IF newVNode.type = "element" /\ oldVNode.el # 0
    THEN Then(patchChildren(
                  IF oldVNode.tagName # "fragment" /\ newVNode.tagName # "fragment"
                  THEN updateProps(w, oldVNode.el, oldVNode.props, newVNode.props)
                  ELSE w,
                  oldVNode.children, newVNode.children, oldVNode.el), LAMBDA w1 :
              [w1 EXCEPT !.vn = [newVNode EXCEPT !.el = oldVNode.el,
                                                 !.children = w1.vn]])
    ELSE [w EXCEPT !.vn = newVNode]

\* "If we found a matching old node": w1 is the world after
\* patch(oldChild, newChild, parentEl); the new child takes over oldChild.el,
\* and a move is queued when oldIndex < lastIndex, with
\* refNode = newChildren[i + 1].el || null
patchMatched(L, w1, oldIndex, oldChild, newKey, refNode) ==
    [w |-> w1, i |-> L.i + 1,
     lastIndex |-> IF oldIndex < L.lastIndex THEN L.lastIndex ELSE oldIndex,
     moves |-> IF oldIndex < L.lastIndex /\ oldChild.el # 0
               THEN Append(L.moves, [node |-> oldChild.el, refNode |-> refNode])
               ELSE L.moves,
     usedKeys |-> L.usedKeys \cup {newKey},
     done |-> Append(L.done, [w1.vn EXCEPT !.el = oldChild.el])]

\* "Look ahead to find if any following nodes have already been processed"
Ahead(oldChildren, newChildren, i) ==
    {j \in (i + 1)..(Len(newChildren) - 1) :
        /\ getVNodeKey(newChildren[j + 1], j) \in OldKeys(oldChildren)
        /\ newChildren[j + 1].el # 0}

\* the node the created one is inserted before: newChildren[insertPosition].el
\* for the first position found ahead, otherwise parentEl.childNodes[i]
insertRef(w1, oldChildren, newChildren, parentEl, i) ==
    IF Ahead(oldChildren, newChildren, i) # {}
    THEN newChildren[1 + CHOOSE j \in Ahead(oldChildren, newChildren, i) :
                            \A k \in Ahead(oldChildren, newChildren, i) : j <= k].el
    ELSE IF w1.err THEN 0
    ELSE IF i + 1 <= Len(w1.d[parentEl].kids) THEN w1.d[parentEl].kids[i + 1]
    ELSE 0

\* "No matching old node, create a new one": w1 is the world after
\* createRealNode(newChild)
patchCreated(L, w1, oldChildren, newChildren, parentEl) ==
    [L EXCEPT !.w = insertBefore(w1, parentEl, w1.retId,
                                 insertRef(w1, oldChildren, newChildren, parentEl, L.i)),
              !.i = @ + 1,
              !.done = Append(@, w1.vn)]

\* one iteration of the loop over newChildren, newKey = getVNodeKey(newChild, i)
patchChild(L, oldChildren, newChildren, parentEl, newChild, newKey) ==
    IF newKey \in OldKeys(oldChildren)
    THEN patchMatched(L, patch(L.w, oldChildOf(oldChildren, newKey), newChild, parentEl),
                      oldIndexOf(oldChildren, newKey), oldChildOf(oldChildren, newKey),
                      newKey,
                      IF L.i + 1 < Len(newChildren) THEN newChildren[L.i + 2].el ELSE 0)
    ELSE patchCreated(L, createRealNode(L.w, newChild), oldChildren, newChildren,
                      parentEl)

\* The loop "for (let i = 0; i < newChildren.length; i++)" of patchChildren.
\* L.i counts from 0; L.done are the new children already handled, bound;
\* newChildren are the new children as they were when patchChildren was called.
patchEachChild(L, oldChildren, newChildren, parentEl) ==
    IF L.i >= Len(newChildren) \/ L.w.err THEN L
    ELSE patchEachChild(
             patchChild(L, oldChildren, newChildren, parentEl,
                        newChildren[L.i + 1], getVNodeKey(newChildren[L.i + 1], L.i)),
             oldChildren, newChildren, parentEl)

\* "Now perform all queued move operations"
RECURSIVE performMoves(_, _, _)
performMoves(w, moves, parentEl) ==
    IF moves = <<>> \/ w.err THEN w
    ELSE performMoves(
             [insertBefore(w, parentEl, Head(moves).node, Head(moves).refNode)
                 EXCEPT !.st.moved = @ + 1],
             Tail(moves), parentEl)

\* "Remove old nodes that aren't in the new children list"; i counts from 0
RECURSIVE removeUnused(_, _, _, _, _)
removeUnused(w, oldChildren, usedKeys, parentEl, i) ==
    IF i >= Len(oldChildren) \/ w.err THEN w
    ELSE removeUnused(
             IF /\ getVNodeKey(oldChildren[i + 1], i) \notin usedKeys
                /\ oldChildren[i + 1].el # 0
             THEN removeChild(w, parentEl, oldChildren[i + 1].el)
             ELSE w,
             oldChildren, usedKeys, parentEl, i + 1)

\* patchChildren(oldChildren, newChildren, parentEl): w.vn are the new children, bound
patchChildren(w, oldChildren, newChildren, parentEl) ==
    Then(patchEachChild([w |-> w, i |-> 0, lastIndex |-> 0, moves |-> <<>>,
                         usedKeys |-> {}, done |-> <<>>],
                        oldChildren, newChildren, parentEl), LAMBDA L :
         [removeUnused(performMoves(L.w, L.moves, parentEl), oldChildren,
                       L.usedKeys, parentEl, 0) EXCEPT !.vn = L.done])

-----------------------------------------------------------------------------
(* utils/component: Component.replaceContents *)

\* "while (this.element.firstChild) this.element.removeChild(this.element.firstChild)"
RECURSIVE removeAllChildren(_, _)
removeAllChildren(w, element) ==
    IF w.err \/ w.d[element].kids = <<>> THEN w
    ELSE removeAllChildren(removeChild(w, element, Head(w.d[element].kids)), element)

\* replaceContents(content) for a VNode content: patch against the last
\* VNode, or realize the first one; w.vn is the value lastVNode ends with
\* (the assignment is not reached when an exception is thrown)
replaceContents(w, lastVNode, newVNode, element) ==
    Then(IF lastVNode # Null
         THEN patch(w, lastVNode, newVNode, element)
         ELSE Then(createRealNode(removeAllChildren(w, element), newVNode), LAMBDA w1 :
                   [appendChild(w1, element, w1.retId) EXCEPT !.vn = w1.vn]),
         LAMBDA w2 : IF w2.err THEN [w2 EXCEPT !.vn = lastVNode] ELSE w2)

\* the observable structure below node n: tag names, attributes, text, child order
RECURSIVE Structure(_, _)
Structure(d, n) ==
    [kind |-> d[n].kind, tag |-> d[n].tag, attrs |-> d[n].attrs, text |-> d[n].text,
     kids |-> [i \in DOMAIN d[n].kids |-> Structure(d, d[n].kids[i])]]

-----------------------------------------------------------------------------
(* utils/component and utils/hooks.  The instance is a HookComponent whose   *)
(* render is                                                                 *)
(*     const [count, setCount] = this.useState(0);                           *)
(*     return html`<span>${count}</span>`;                                   *)

\* String(n) for the numbers a count can take
Digits == <<"0", "1", "2", "3", "4", "5", "6", "7", "8", "9">>
ToText(n) == Digits[n + 1]

\* () => { this.updateUI(); this.updateScheduled = null; }
UpdateUITask == Task("updateUI", "ok", 0, <<>>)
\* () => { if (this.initialRenderComplete) this.renderWithHooks(); this.updateTaskId = null; }
HookInitTask == Task("hookInit", "ok", 0, <<>>)
\* () => { this.flushStateUpdates(); this.updateTaskId = null; }
FlushStateTask == Task("flushState", "ok", 0, <<>>)

\* mutant: a task is scheduled although one is pending
scheduleUpdate_NoDedup(w) ==
    Then(scheduleTask(w, UpdateUITask), LAMBDA w1 :
         [w1 EXCEPT !.c.updateScheduled = w1.retId])

\* Component.scheduleUpdate
scheduleUpdate(w) ==
    IF w.c.updateScheduled # 0 THEN w
    ELSE Then(scheduleTask(w, UpdateUITask), LAMBDA w1 :
              [w1 EXCEPT !.c.updateScheduled = w1.retId])

\* Component.update
update(w) == scheduleUpdate([w EXCEPT !.c.shouldUpdate = TRUE])


\* mutant: objects with as many keys are equal
shallowEqual_KeyCount(objA, objB, same) ==
    same \/ Cardinality(DOMAIN objA) = Cardinality(DOMAIN objB)

\* shallowEqual(objA, objB) for two props objects; same says that both are
\* one object (objA === objB)
shallowEqual(objA, objB, same) ==
    IF same THEN TRUE
    ELSE IF Cardinality(DOMAIN objA) # Cardinality(DOMAIN objB) THEN FALSE
    ELSE \A key \in DOMAIN objA :
            key \in DOMAIN objB /\ StrictEq(objA[key], objB[key])

\* Component.shouldComponentUpdate
shouldComponentUpdate(w, newProps, same) == ~shallowEqual(w.c.props, newProps, same)

\* Component.updateProps(newProps)
componentUpdateProps(w, newProps, same) ==
    IF shouldComponentUpdate(w, newProps, same)
    THEN scheduleUpdate([w EXCEPT !.c.props = newProps, !.c.shouldUpdate = TRUE])
    ELSE w

\* mutant: the initial state is returned whatever the slot holds
useState_Initial(w, initialState) ==
    [w EXCEPT !.c.hookIndex = @ + 1,
              !.c.hookStates = IF w.c.hookIndex >= Len(@)
                               THEN Append(@, initialState) ELSE @,
              !.c.slotTypes = IF w.c.hookIndex >= Len(w.c.hookStates)
                              THEN Append(@, "state") ELSE @,
              !.retId = initialState]

\* HookComponent.useState(initialState): w.retId is the state it returns
useState(w, initialState) ==
    Then([w EXCEPT !.c.hookIndex = @ + 1,
                   !.c.hookStates = IF w.c.hookIndex >= Len(@)
                                    THEN Append(@, initialState) ELSE @,
                   !.c.slotTypes = IF w.c.hookIndex >= Len(w.c.hookStates)
                                   THEN Append(@, "state") ELSE @], LAMBDA w1 :
         [w1 EXCEPT !.retId = w1.c.hookStates[w.c.hookIndex + 1]])

\* const index = this.hookIndex++, and the push of a hook's first call:
\* value is pushed when the slot does not exist yet
claimSlot(w, type, value) ==
    [w EXCEPT !.c.hookIndex = @ + 1,
              !.c.hookStates = IF w.c.hookIndex >= Len(@) THEN Append(@, value) ELSE @,
              !.c.slotTypes = IF w.c.hookIndex >= Len(w.c.hookStates)
                              THEN Append(@, type) ELSE @]

\* mutant: every render makes a new cell that holds initialValue
useRef_Fresh(w, initialValue) ==
    [Event(claimSlot(w, "ref", [current |-> initialValue]),
           "newRef", w.c.hookIndex + 1, initialValue)
        EXCEPT !.c.hookStates[w.c.hookIndex + 1] = [current |-> initialValue],
               !.retId = [current |-> initialValue]]

\* HookComponent.useRef(initialValue): w.retId is the cell it returns; the
\* event "newRef" is the evaluation of { current: initialValue }
useRef(w, initialValue) ==
    Then(IF w.c.hookIndex >= Len(w.c.hookStates)
         THEN Event(claimSlot(w, "ref", [current |-> initialValue]),
                    "newRef", w.c.hookIndex + 1, initialValue)
         ELSE claimSlot(w, "ref", [current |-> initialValue]), LAMBDA w1 :
         [w1 EXCEPT !.retId = w1.c.hookStates[w.c.hookIndex + 1]])

\* mutant: the cached value is kept whatever deps is
depsChanged_Never(oldDeps, deps) == FALSE

\* useMemo: oldDeps.length !== deps.length || deps.some((dep, i) => dep !== oldDeps[i])
\* (oldDeps is the array stored by the previous call)
depsChanged(oldDeps, deps) ==
    Len(oldDeps) # Len(deps) \/ \E i \in DOMAIN deps : ~StrictEq(deps[i], oldDeps[i])

\* HookComponent.useMemo(factory, deps) with factory = () => [...deps];
\* w.retId is the value it returns
useMemo(w, deps) ==
    IF w.c.hookIndex >= Len(w.c.hookStates) \/
       depsChanged(w.c.hookStates[w.c.hookIndex + 1].deps, deps)
    THEN [Event([claimSlot(w, "memo", [value |-> deps, deps |-> deps])
                    EXCEPT !.c.hookStates[w.c.hookIndex + 1] =
                               [value |-> deps, deps |-> deps]],
                "factory", w.c.hookIndex + 1, deps) EXCEPT !.retId = deps]
    ELSE [claimSlot(w, "memo", <<>>) EXCEPT
             !.retId = w.c.hookStates[w.c.hookIndex + 1].value]

\* a deps argument: undefined, or an array
NoDeps == [def |-> FALSE, v |-> <<>>]
Deps(v) == [def |-> TRUE, v |-> v]

\* a cleanup field: undefined, the function an effect callback returned
\* (beh: what it does when called), or the unsubscribe closure of useContext
\* (sid: the subscriber it removes)
NoCleanup == [fn |-> "none", beh |-> "ok", sid |-> 0]
Cleanup(fn, beh, sid) == [fn |-> fn, beh |-> beh, sid |-> sid]

\* state.cleanup() for the slot at index i - 1
callCleanup(w, i) ==
    IF w.c.hookStates[i].cleanup.fn = "unsubscribe"
    THEN [Event(w, "cleanup", i, 0) EXCEPT
             !.ctx.subscribers = SelectSeq(@, LAMBDA sub :
                                     sub.sid # w.c.hookStates[i].cleanup.sid)]
    ELSE IF w.c.hookStates[i].cleanup.beh = "throw"
    THEN Throw(Event(w, "cleanup", i, 0))
    ELSE Event(w, "cleanup", i, 0)

\* JSON.stringify of an array, as the list of the texts of its elements:
\* NaN is written null, an object is written with its keys in their order
Json(deps) == [i \in DOMAIN deps |-> IF deps[i] = "NaN" THEN "null" ELSE deps[i]]

\* useEffect: the condition shouldRun
shouldRun(prevDeps, deps) ==
    \/ ~deps.def
    \/ ~prevDeps.def
    \/ Len(deps.v) # Len(prevDeps.v)
    \/ Json(deps.v) # Json(prevDeps.v)

\* useEffect: the branch taken when shouldRun holds, for the slot at index
\* i - 1: previous cleanup, callback (it returns cleanup), new effect data
runEffect(w, i, deps, cleanup) ==
    Then(IF w.c.hookStates[i].cleanup.fn # "none" THEN callCleanup(w, i) ELSE w,
         LAMBDA w1 :
         IF w1.err THEN w1
         ELSE [Event(w1, "effect", i, 0) EXCEPT
                  !.c.hookStates[i] = [deps |-> deps, cleanup |-> cleanup]])

\* HookComponent.useEffect(callback, deps), callback returning cleanup
useEffect(w, deps, cleanup) ==
    Then(claimSlot(w, "effect", [deps |-> NoDeps, cleanup |-> NoCleanup]), LAMBDA w1 :
         IF shouldRun(w1.c.hookStates[w.c.hookIndex + 1].deps, deps)
         THEN runEffect(w1, w.c.hookIndex + 1, deps, cleanup)
         ELSE w1)

\* the setter returned by useState: setState(newState)
setState(w, newState) ==
    IF w.c.isBatchingUpdates
    THEN [w EXCEPT !.c.pendingStateUpdates = Append(@, newState)]
    ELSE IF w.c.updateTaskId # 0
    THEN [w EXCEPT !.c.pendingStateUpdates = Append(@, newState),
                   !.c.isBatchingUpdates = TRUE]
    ELSE Then(scheduleTask([w EXCEPT !.c.pendingStateUpdates = Append(@, newState),
                                     !.c.isBatchingUpdates = TRUE],
                           FlushStateTask), LAMBDA w1 :
              [w1 EXCEPT !.c.updateTaskId = w1.retId])

\* useEffect(callback, deps) is about to call callback
effectRuns(w, deps) ==
    \/ w.c.hookIndex >= Len(w.c.hookStates)
    \/ shouldRun(w.c.hookStates[w.c.hookIndex + 1].deps, deps)

\* a subscriber of the context: the updateFromContext closure of the
\* instance or another callback; sid tells the closures apart, beh is what
\* a callback does when called, arg the subscriber it removes
Subscriber(fn, beh, arg, sid) == [fn |-> fn, beh |-> beh, arg |-> arg, sid |-> sid]

\* mutant: every call subscribes a new closure
useContext_EveryRender(w) ==
    [claimSlot(w, "context", [cleanup |-> Cleanup("unsubscribe", "ok", w.ctx.made + 1)])
        EXCEPT !.ctx.subscribers =
                   Append(@, Subscriber("updateFromContext", "ok", 0, w.ctx.made + 1)),
               !.ctx.made = @ + 1,
               !.retId = w.ctx.value]

\* HookComponent.useContext(context); w.retId is the value it returns.
\* context.made counts the closures created (the next one's identity).
useContext(w) ==
    IF w.c.hookIndex >= Len(w.c.hookStates)
    THEN [claimSlot(w, "context",
                    [cleanup |-> Cleanup("unsubscribe", "ok", w.ctx.made + 1)])
             EXCEPT !.ctx.subscribers =
                        Append(@, Subscriber("updateFromContext", "ok", 0,
                                             w.ctx.made + 1)),
                    !.ctx.made = @ + 1,
                    !.retId = w.ctx.value]
    ELSE [claimSlot(w, "context", <<>>) EXCEPT !.retId = w.ctx.value]

\* Object.values(this.props)
Values(props) ==
    IF DOMAIN props = {"a", "b"} THEN <<props["a"], props["b"]>>
    ELSE IF DOMAIN props = {"a"} THEN <<props["a"]>>
    ELSE IF DOMAIN props = {"b"} THEN <<props["b"]>>
    ELSE <<>>

\* what a hook call of the running render returned (history)
Returned(w, hook) == Event(w, hook, w.c.hookIndex, w.retId)

\* the render functions of the other subclasses:
\*   Memo    const vals = Object.values(this.props);
\*           const m = this.useMemo(() => [...vals], vals);
\*           const [count] = this.useState(0);
\*           return html`<span>${count}</span>`;
\*   Effect  const [count] = this.useState(0);
\*           this.useEffect(() => cleanup, 'a' in this.props ? vals : undefined);
\*           return html`<span>${count}</span>`;
\*   Ctx     const [count] = this.useState(0);
\*           this.useEffect(() => throwingCleanup, []);
\*           const theme = this.useContext(context);
\*           if (!('a' in this.props)) this.useEffect(() => cleanup, []);
\*           return html`<span>${theme}</span>`;
\*   Eager   const [count, setCount] = this.useState(0);
\*           this.useEffect(() => { setCount(1); }, []);
\*           return html`<span>${count}</span>`;
\*   Refresh const [count] = this.useState(0);
\*           this.useEffect(() => { this.update(); }, vals);
\*           return html`<span>${count}</span>`;
\*   Faulty  const [count] = this.useState(0);
\*           const ref = this.useRef(vals);
\*           if ('b' in this.props) throw new Error('render');
\*           return html`<span>${count}</span>`;
renderProbe(w) ==
    CASE w.c.cls = "Memo" ->
            Then(Returned(useMemo(w, Values(w.c.props)), "useMemo"), LAMBDA w1 :
            Then(Returned(useState(w1, 0), "useState"), LAMBDA w2 :
                 [w2 EXCEPT !.vn = createElement("span", <<>>,
                                       <<createTextNode(ToText(w2.retId))>>)]))
      [] w.c.cls = "Effect" ->
            Then(Returned(useState(w, 0), "useState"), LAMBDA w1 :
            Then(useEffect(w1, IF "a" \in DOMAIN w1.c.props
                               THEN Deps(Values(w1.c.props)) ELSE NoDeps,
                           Cleanup("effect", "ok", 0)), LAMBDA w2 :
                 IF w2.err THEN w2 ELSE
                 [w2 EXCEPT !.vn = createElement("span", <<>>,
                                       <<createTextNode(ToText(w1.retId))>>)]))
      [] w.c.cls = "Ctx" ->
            Then(Returned(useState(w, 0), "useState"), LAMBDA w1 :
            Then(useEffect(w1, Deps(<<>>), Cleanup("effect", "throw", 0)), LAMBDA w2 :
            Then(Returned(useContext(w2), "useContext"), LAMBDA w3 :
            Then(IF "a" \in DOMAIN w3.c.props THEN w3
                 ELSE useEffect(w3, Deps(<<>>), Cleanup("effect", "ok", 0)), LAMBDA w4 :
                 IF w4.err THEN w4 ELSE
                 [w4 EXCEPT !.vn = createElement("span", <<>>,
                                       <<createTextNode(w3.retId)>>)]))))
      [] w.c.cls = "Eager" ->
            Then(Returned(useState(w, 0), "useState"), LAMBDA w1 :
            Then(IF effectRuns(w1, Deps(<<>>))
                 THEN setState(useEffect(w1, Deps(<<>>), NoCleanup),
                               Update("set", 1, 0, 0))
                 ELSE useEffect(w1, Deps(<<>>), NoCleanup), LAMBDA w2 :
                 [w2 EXCEPT !.vn = createElement("span", <<>>,
                                       <<createTextNode(ToText(w1.retId))>>)]))
      [] w.c.cls = "Refresh" ->
            Then(Returned(useState(w, 0), "useState"), LAMBDA w1 :
            Then(IF effectRuns(w1, Deps(Values(w1.c.props)))
                 THEN update(Event(useEffect(w1, Deps(Values(w1.c.props)), NoCleanup),
                                   "update", 0, 0))
                 ELSE useEffect(w1, Deps(Values(w1.c.props)), NoCleanup), LAMBDA w2 :
                 [w2 EXCEPT !.vn = createElement("span", <<>>,
                                       <<createTextNode(ToText(w1.retId))>>)]))
      [] w.c.cls = "Faulty" ->
            Then(Returned(useState(w, 0), "useState"), LAMBDA w1 :
            Then(Returned(useRef(w1, Values(w1.c.props)), "useRef"), LAMBDA w2 :
                 IF "b" \in DOMAIN w2.c.props THEN Throw(w2) ELSE
                 [w2 EXCEPT !.vn = createElement("span", <<>>,
                                       <<createTextNode(ToText(w1.retId))>>)]))

\* the render function of the instance: w.vn is the VNode it returns
render(w) ==
    IF w.c.cls # "Counter" THEN renderProbe(w) ELSE
    Then(useState(w, 0), LAMBDA w1 :
         [w1 EXCEPT !.vn = createElement("span", <<>>,
                                         <<createTextNode(ToText(w1.retId))>>)])

\* An exception a task throws is caught by processTaskQueue: the rest of
\* the task is not executed, the flush goes on.
Caught(w) == [w EXCEPT !.err = FALSE]

\* catch (error) { console.error('Error in scheduled task:', error) }
LogError(w) == Event(Caught(w), "error", 0, 0)

\* HookComponent.renderWithHooks (an exception thrown by render propagates)
renderWithHooks(w) ==
    Then(render(Event([w EXCEPT !.c.hookIndex = 0], "render", 0, 0)), LAMBDA w1 :
         IF ~w1.err /\ w1.c.hookIndex < Len(w.c.hookStates)
         THEN [w1 EXCEPT !.c.hookStates = SubSeq(@, 1, w1.c.hookIndex),
                         !.c.slotTypes = SubSeq(@, 1, w1.c.hookIndex)]
         ELSE w1)

\* mutant: the component catches what its render function throws
updateUI_Swallow(w) == Caught(renderWithHooks(w))

\* HookComponent.updateUI: renderWithHooks, then replaceContents(content)
updateUI(w) ==
    Then(renderWithHooks(w), LAMBDA w1 :
         IF w1.err THEN w1 ELSE
    Then(replaceContents(w1, w1.c.lastVNode, w1.vn, w1.c.element), LAMBDA w2 :
         [w2 EXCEPT !.c.lastVNode = w2.vn]))

\* mutant: the constructor renders before it returns
construct_Sync(w) ==
    updateUI(
    Then(createNode(w, "element", "div", ""), LAMBDA w1 :
    Then(scheduleTask(
             [w1 EXCEPT !.c = [element |-> w1.retId, lastVNode |-> Null,
                               props |-> <<>>, cls |-> "Counter",
                               isConnected |-> FALSE, slotTypes |-> <<>>,
                               shouldUpdate |-> TRUE, updateScheduled |-> 0,
                               hookStates |-> <<>>, hookIndex |-> 0,
                               initialRenderComplete |-> FALSE,
                               isBatchingUpdates |-> FALSE,
                               pendingStateUpdates |-> <<>>,
                               updateTaskId |-> 0]],
             UpdateUITask), LAMBDA w2 :
    Then(scheduleTask([w2 EXCEPT !.c.updateScheduled = w2.retId,
                                 !.c.initialRenderComplete = TRUE],
                      HookInitTask), LAMBDA w3 :
         [w3 EXCEPT !.c.updateTaskId = w3.retId]))))

\* new HookComponent(): the constructor of Component (element, first task),
\* the field initializers of HookComponent, then its constructor body.
\* 0 stands for null in updateScheduled and updateTaskId.  props is the
\* copy of the constructor's argument ({}), cls names the subclass (which
\* render function the instance has), isConnected is element.isConnected,
\* slotTypes[i] is what kind of value hookStates[i] is.
construct(w) ==
    Then(createNode(w, "element", "div", ""), LAMBDA w1 :
    Then(scheduleTask(
             [w1 EXCEPT !.c = [element |-> w1.retId, lastVNode |-> Null,
                               props |-> <<>>, cls |-> "Counter",
                               isConnected |-> FALSE, slotTypes |-> <<>>,
                               shouldUpdate |-> TRUE, updateScheduled |-> 0,
                               hookStates |-> <<>>, hookIndex |-> 0,
                               initialRenderComplete |-> FALSE,
                               isBatchingUpdates |-> FALSE,
                               pendingStateUpdates |-> <<>>,
                               updateTaskId |-> 0]],
             UpdateUITask), LAMBDA w2 :
    Then(scheduleTask([w2 EXCEPT !.c.updateScheduled = w2.retId,
                                 !.c.initialRenderComplete = TRUE],
                      HookInitTask), LAMBDA w3 :
         [w3 EXCEPT !.c.updateTaskId = w3.retId])))

\* HookComponent.flushStateUpdates (u and of are history tags of the copies)
flushStateUpdates(w) ==
    IF ~w.c.isBatchingUpdates \/ w.c.pendingStateUpdates = <<>> THEN w
    ELSE scheduleUpdate(
             batchUpdates([w EXCEPT !.c.isBatchingUpdates = FALSE,
                                    !.c.pendingStateUpdates = <<>>],
                          [i \in DOMAIN w.c.pendingStateUpdates |->
                              [w.c.pendingStateUpdates[i] EXCEPT
                                  !.u = i, !.of = Len(w.c.pendingStateUpdates)]]))

\* mutant: the closure does nothing
updateFromContext_Idle(w, sub) == w

\* the closure updateFromContext that useContext subscribed
updateFromContext(w, sub) ==
    IF w.c.isConnected THEN renderWithHooks(w)
    ELSE [w EXCEPT !.ctx.subscribers = SelectSeq(@, LAMBDA x : x.sid # sub.sid)]

\* subscriber(newValue): the closure of the instance, or a callback that
\* returns ("ok"), throws, deletes the subscriber arg from the set
\* ("remove") or adds a new callback to it ("add")
callSubscriber(w, sub) ==
    CASE sub.fn = "updateFromContext" ->
            updateFromContext(Event(w, "notify", sub.sid, w.ctx.value), sub)
      [] sub.fn = "plain" /\ sub.beh = "ok" -> Event(w, "notify", sub.sid, w.ctx.value)
      [] sub.fn = "plain" /\ sub.beh = "throw" ->
            Throw(Event(w, "notify", sub.sid, w.ctx.value))
      [] sub.fn = "plain" /\ sub.beh = "remove" ->
            [Event(w, "notify", sub.sid, w.ctx.value) EXCEPT
                !.ctx.subscribers = SelectSeq(@, LAMBDA x : x.sid # sub.arg)]
      [] sub.fn = "plain" /\ sub.beh = "add" ->
            [Event(w, "notify", sub.sid, w.ctx.value) EXCEPT
                !.ctx.subscribers = Append(@, Subscriber("plain", "ok", 0,
                                                         w.ctx.made + 1)),
                !.ctx.made = @ + 1]

\* try { subscriber(newValue) } catch { context.subscribers.delete(subscriber) }
notifyOne(w, sub) ==
    Then(callSubscriber(w, sub), LAMBDA w1 :
         IF w1.err
         THEN [Caught(w1) EXCEPT
                  !.ctx.subscribers = SelectSeq(@, LAMBDA x : x.sid # sub.sid)]
         ELSE w1)

\* mutant: the loop runs over the live set, a subscriber deleted before
\* its turn is not called
RECURSIVE notifyAll_Live(_, _)
notifyAll_Live(w, subscribers) ==
    IF subscribers = <<>> THEN w
    ELSE notifyAll_Live(IF \E i \in DOMAIN w.ctx.subscribers :
                             w.ctx.subscribers[i].sid = Head(subscribers).sid
                        THEN notifyOne(w, Head(subscribers)) ELSE w,
                        Tail(subscribers))

\* for (const subscriber of subscribers) over the copy of the set
RECURSIVE notifyAll(_, _)
notifyAll(w, subscribers) ==
    IF subscribers = <<>> THEN w
    ELSE notifyAll(notifyOne(w, Head(subscribers)), Tail(subscribers))

\* setContextValue(context, newValue)
setContextValue(w, newValue) ==
    IF StrictEq(w.ctx.value, newValue) THEN w
    ELSE notifyAll([w EXCEPT !.ctx.value = newValue], w.ctx.subscribers)

\* destroy: for (const state of this.hookStates) try { state.cleanup() } catch
RECURSIVE runCleanups(_, _)
runCleanups(w, i) ==
    IF i > Len(w.c.hookStates) THEN w
    ELSE runCleanups(IF /\ w.c.slotTypes[i] \in {"effect", "context"}
                        /\ w.c.hookStates[i].cleanup.fn # "none"
                     THEN Caught(callCleanup(w, i)) ELSE w,
                     i + 1)

\* mutant: the scheduled tasks are left in the queue
destroy_NoCancel(w) ==
    [runCleanups(w, 1) EXCEPT !.c.hookStates = <<>>, !.c.slotTypes = <<>>,
                              !.c.updateTaskId = 0, !.c.updateScheduled = 0]

\* HookComponent.destroy, with Component.destroy (super.destroy()) at its end
destroy(w) ==
    Then(IF w.c.updateTaskId # 0
         THEN [cancelTask(w, w.c.updateTaskId) EXCEPT !.c.updateTaskId = 0]
         ELSE w, LAMBDA w1 :
    Then([runCleanups(w1, 1) EXCEPT !.c.hookStates = <<>>, !.c.slotTypes = <<>>],
         LAMBDA w2 :
         IF w2.c.updateScheduled # 0
         THEN [cancelTask(w2, w2.c.updateScheduled) EXCEPT !.c.updateScheduled = 0]
         ELSE w2))

\* try { task() } catch (error) { console.error(...) }
\*   "throw"  the task throws: the error is caught, nothing else happens
\*   "spawn"  the task calls scheduleTask
\*   "cancel" the task calls cancelTask(arg)
runTask(w, task) ==
    CASE task.kind = "noop"  -> w
      [] task.kind = "plain" /\ task.beh = "spawn" ->
            scheduleTask(Logged(w, task, 0, 0), Task("plain", "ok", 0, <<>>))
      [] task.kind = "plain" /\ task.beh = "cancel" ->
            cancelTask(Logged(w, task, 0, 0), task.arg)
      [] task.kind = "plain" /\ task.beh \in {"ok", "throw"} -> Logged(w, task, 0, 0)
      [] task.kind = "batch" -> runUpdates(w, task, task.updates)
      [] task.kind = "updateUI" ->
            Then(updateUI(Logged(w, task, 0, 0)), LAMBDA w1 :
                 IF w1.err THEN LogError(w1) ELSE [w1 EXCEPT !.c.updateScheduled = 0])
      [] task.kind = "hookInit" ->
            Then(IF w.c.initialRenderComplete
                 THEN renderWithHooks(Logged(w, task, 0, 0))
                 ELSE Logged(w, task, 0, 0), LAMBDA w1 :
                 IF w1.err THEN LogError(w1) ELSE [w1 EXCEPT !.c.updateTaskId = 0])
      [] task.kind = "flushState" ->
            [flushStateUpdates(Logged(w, task, 0, 0)) EXCEPT !.c.updateTaskId = 0]

-----------------------------------------------------------------------------
(* Actions *)

Idle == tasks = <<>>

\* ids a queued "spawn" task will still take
Reserved ==
    Cardinality({i \in DOMAIN sched.taskQueue : sched.taskQueue[i].beh = "spawn"})

\* history bookkeeping shared by the actions: ids handed out in this step
Submitted(s2) ==
    [i \in 1..(s2.nextTaskId - 1) |->
        IF i < sched.nextTaskId THEN submittedAt[i] ELSE flushNo]

\* an event handler calls scheduleTask(task)
ScheduleTask ==
    /\ Idle
    /\ \E beh \in {"ok", "throw", "spawn", "cancel"}, arg \in 1..MaxTaskId :
        /\ sched.nextTaskId + Reserved + (IF beh = "spawn" THEN 1 ELSE 0) <= MaxTaskId
        /\ beh = "cancel" \/ arg = 1
        /\ \E w \in {scheduleTask(World(sched, comp, dom, execLog),
                                    Task("plain", beh, arg, <<>>))} :
              /\ sched' = w.s
              /\ submittedAt' = Submitted(w.s)
              /\ lastOp' = [op |-> "scheduleTask", id |-> w.retId, ok |-> TRUE]
    /\ UNCHANGED <<tasks, flushNo, execLog, cancelled, dom, comp, lastPatch, hist, context, events, cache, store, router>>

\* an event handler calls cancelTask(taskId)
CancelTask ==
    /\ Idle
    /\ \E taskId \in 1..MaxTaskId :
        \E w \in {cancelTask(World(sched, comp, dom, execLog), taskId)} :
           /\ sched' = w.s
           /\ cancelled' = IF w.retOk THEN cancelled \cup {taskId} ELSE cancelled
           /\ lastOp' = [op |-> "cancelTask", id |-> taskId, ok |-> w.retOk]
    /\ UNCHANGED <<tasks, flushNo, execLog, submittedAt, dom, comp, lastPatch, hist, context, events, cache, store, router>>

\* an event handler calls batchUpdates(updates)
BatchUpdates ==
    /\ Idle
    /\ sched.nextTaskId + Reserved <= MaxTaskId
    /\ \E n \in 1..MaxBatch :
        \E w \in {batchUpdates(World(sched, comp, dom, execLog),
                                 [i \in 1..n |-> Update("log", 0, i, n)])} :
           /\ sched' = w.s
           /\ submittedAt' = Submitted(w.s)
           /\ lastOp' = [op |-> "batchUpdates", id |-> sched.nextTaskId, ok |-> TRUE]
    /\ UNCHANGED <<tasks, flushNo, execLog, cancelled, dom, comp, lastPatch, hist, context, events, cache, store, router>>

\* mutant: the queue is copied but not emptied
ProcessTaskQueue_KeepQueue ==
    /\ Idle
    /\ sched.rafCallbacks > 0
    /\ tasks' = sched.taskQueue
    /\ sched' = [sched EXCEPT !.frameScheduled = FALSE, !.rafCallbacks = @ - 1]
    /\ flushNo' = flushNo + 1
    /\ lastOp' = [op |-> "processTaskQueue", id |-> 0, ok |-> TRUE]
    /\ UNCHANGED <<execLog, submittedAt, cancelled, dom, comp, lastPatch, hist, context, events, cache, store, router>>

\* the browser calls the frame callback: processTaskQueue up to the loop
ProcessTaskQueue ==
    /\ Idle
    /\ sched.rafCallbacks > 0
    /\ tasks' = sched.taskQueue
    /\ sched' = [sched EXCEPT !.taskQueue = <<>>, !.taskMap = <<>>,
                              !.frameScheduled = FALSE, !.rafCallbacks = @ - 1]
    /\ flushNo' = flushNo + 1
    /\ lastOp' = [op |-> "processTaskQueue", id |-> 0, ok |-> TRUE]
    /\ UNCHANGED <<execLog, submittedAt, cancelled, dom, comp, lastPatch, hist, context, events, cache, store, router>>

\* mutant: an error thrown by a task ends the loop
nextTasks_Abort(ts) == IF Head(ts).beh = "throw" THEN <<>> ELSE Tail(ts)

\* for (const task of tasks) { try { task() } catch (error) { ... } }:
\* the tasks still to run once the first one has returned or thrown
nextTasks(ts) == Tail(ts)

\* one iteration of the loop of processTaskQueue
RunTask ==
    /\ tasks # <<>>
    /\ \E task \in {Head(tasks)} :
       \E w \in {runTask(World(sched, comp, dom, execLog), task)} :
          /\ sched' = w.s
          /\ execLog' = w.log
          /\ dom' = w.d
          /\ comp' = w.c
          /\ context' = w.ctx
          /\ events' = w.ev
          /\ submittedAt' = Submitted(w.s)
          /\ cancelled' = IF task.beh = "cancel" /\ w.retOk
                          THEN cancelled \cup {task.arg} ELSE cancelled
          /\ lastOp' = [op |-> "task", id |-> task.id,
                        ok |-> IF task.beh = "cancel" THEN w.retOk ELSE TRUE]
    /\ tasks' = nextTasks(tasks)
    /\ UNCHANGED <<flushNo, lastPatch, hist, cache, store, router>>

SchedInitState ==
    /\ sched = SchedInit
    /\ tasks = <<>>
    /\ flushNo = 0
    /\ execLog = <<>>
    /\ submittedAt = <<>>
    /\ cancelled = {}
    /\ lastOp = [op |-> "init", id |-> 0, ok |-> TRUE]
    /\ dom = <<>>
    /\ comp = NoComponent
    /\ lastPatch = NoPatch
    /\ hist = NoHist
    /\ context = createContext("light")
    /\ events = <<>>
    /\ cache = NoCache
    /\ store = NewStore
    /\ router = NewRouter

NextSched == ScheduleTask \/ CancelTask \/ BatchUpdates \/ ProcessTaskQueue \/ RunTask

SpecSched == SchedInitState /\ [][NextSched]_vars

\* the browser calls every frame callback requested, and the loop of a
\* flush runs to its end
SpecSchedFair == SpecSched /\ WF_vars(ProcessTaskQueue) /\ WF_vars(RunTask)

-----------------------------------------------------------------------------
(* Properties of the scheduler, checked under SpecSched *)

ExecutedIds == {execLog[i].id : i \in DOMAIN execLog}
RunningIds == {tasks[i].id : i \in DOMAIN tasks}
QueuedIds == {sched.taskQueue[i].id : i \in DOMAIN sched.taskQueue}
\* a task that was due in a flush already started and was not cancelled
Due(t) == submittedAt[t] < flushNo /\ t \notin cancelled

\* C6: every task passed to scheduleTask before a frame fires, and not
\* cancelled, runs in that very flush (the first one started after its
\* submission), and the tasks of a flush run in submission order.
C6_SingleFlushInOrder ==
    /\ \A i \in DOMAIN execLog : execLog[i].flush = submittedAt[execLog[i].id] + 1
    /\ \A i, j \in DOMAIN execLog : i < j => execLog[i].id <= execLog[j].id
    /\ \A t \in DOMAIN submittedAt : Due(t) /\ t \notin RunningIds => t \in ExecutedIds

\* C6 witness: a flush that ran three tasks submitted before it fired
C6_Witness ==
    /\ Idle
    /\ \E i \in DOMAIN execLog :
        /\ i + 2 \in DOMAIN execLog
        /\ execLog[i].flush = execLog[i + 2].flush
        /\ execLog[i].id < execLog[i + 1].id
        /\ execLog[i + 1].id < execLog[i + 2].id

\* C7: at most one frame callback is outstanding, one is outstanding exactly
\* when the task queue is not empty (frameScheduled says so), and every task
\* submitted since the last flush started sits in that one pending batch.
C7_OnePendingFlush ==
    /\ sched.rafCallbacks <= 1
    /\ sched.rafCallbacks = 1 <=> sched.taskQueue # <<>>
    /\ sched.frameScheduled <=> sched.rafCallbacks = 1
    /\ \A t \in DOMAIN submittedAt :
          submittedAt[t] = flushNo /\ t \notin cancelled => t \in QueuedIds

\* C7 witness: a second scheduleTask call was made while a flush was pending
C7_Witness ==
    /\ lastOp.op = "scheduleTask"
    /\ Len(sched.taskQueue) >= 2
    /\ sched.rafCallbacks = 1

\* C8: a task that throws is isolated: every task queued after it for the
\* same flush, and not cancelled, still runs in that flush, in order, and
\* afterwards the scheduler is as usable as before (a frame is requested
\* exactly when tasks are queued).
C8_ThrowIsolated ==
    \A i \in DOMAIN execLog :
        execLog[i].beh = "throw" =>
            /\ \A t \in DOMAIN submittedAt :
                  (/\ t > execLog[i].id
                   /\ submittedAt[t] = submittedAt[execLog[i].id]
                   /\ t \notin cancelled
                   /\ t \notin RunningIds)
                  => \E j \in DOMAIN execLog :
                        /\ j > i
                        /\ execLog[j].id = t
                        /\ execLog[j].flush = execLog[i].flush
            /\ sched.frameScheduled <=> sched.taskQueue # <<>>
            /\ sched.frameScheduled <=> sched.rafCallbacks = 1

\* C8 witness: a task threw, a later task of the same flush ran after it, and
\* a task scheduled afterwards has a frame requested for it
C8_Witness ==
    /\ Idle
    /\ sched.rafCallbacks = 1
    /\ \E i \in DOMAIN execLog :
        /\ execLog[i].beh = "throw"
        /\ i + 1 \in DOMAIN execLog
        /\ execLog[i + 1].flush = execLog[i].flush
        /\ \E t \in QueuedIds : t > execLog[i + 1].id

\* C9: cancelTask(id) returns true exactly when the task was submitted since
\* the last flush started and was not cancelled before; then the task never
\* runs, while every other task still runs in submission order.  Otherwise
\* (the flush of the task has fired, or a second call) it returns false and
\* changes nothing in the scheduler.
C9_Cancel ==
    /\ [](cancelled \cap ExecutedIds = {})
    /\ [](\A i, j \in DOMAIN execLog : i < j => execLog[i].id <= execLog[j].id)
    /\ [](\A t \in DOMAIN submittedAt : Due(t) /\ t \notin RunningIds => t \in ExecutedIds)
    /\ [][lastOp'.op = "cancelTask" =>
             /\ lastOp'.ok <=> (/\ lastOp'.id \in DOMAIN submittedAt
                                /\ submittedAt[lastOp'.id] = flushNo
                                /\ lastOp'.id \notin cancelled)
             /\ ~lastOp'.ok => sched' = sched
             /\ lastOp'.ok => cancelled' = cancelled \cup {lastOp'.id}]_vars

\* C9 witness: of three tasks of one batch the middle one was cancelled, the
\* flush ran the other two, and a later cancelTask of the same id returned false
C9_Witness ==
    /\ lastOp.op = "cancelTask" /\ ~lastOp.ok
    /\ lastOp.id \in cancelled
    /\ flushNo > submittedAt[lastOp.id]
    /\ {lastOp.id - 1, lastOp.id + 1} \subseteq ExecutedIds
    /\ submittedAt[lastOp.id - 1] = submittedAt[lastOp.id + 1]

-----------------------------------------------------------------------------
(* The reconciler under a sequence of renders: SpecPatch *)

Keys == {"A", "B", "C"}

\* <li key=k></li>
Item(k) == createElement("li", ("key" :> k), <<>>)

\* children without a key: <li>a</li>, <li id="b">b</li>, the text a, <p></p>
\* and createElement('p', {title: NaN})
PlainChildren ==
    {createElement("li", <<>>, <<createTextNode("a")>>),
     createElement("li", ("id" :> "b"), <<createTextNode("b")>>),
     createTextNode("a"),
     createElement("p", <<>>, <<>>),
     createElement("p", ("title" :> "NaN"), <<>>)}

SeqsUpTo(S, n) == UNION {[1..m -> S] : m \in 0..n}

KeyedLists ==
    {[i \in DOMAIN ks |-> Item(ks[i])] :
        ks \in {q \in SeqsUpTo(Keys, Cardinality(Keys)) :
                   \A i, j \in DOMAIN q : i # j => q[i] # q[j]}}

\* the trees a render function returns: <ul> with a list of children
Trees ==
    {createElement("ul", props, children) :
        props \in {<<>>},
        children \in KeyedLists \cup SeqsUpTo(PlainChildren, MaxChildren)}

RECURSIVE NodeCount(_)
RECURSIVE NodeCountAll(_)
NodeCountAll(vnodes) ==
    IF vnodes = <<>> THEN 0 ELSE NodeCount(Head(vnodes)) + NodeCountAll(Tail(vnodes))
NodeCount(vnode) == 1 + NodeCountAll(vnode.children)

\* the component is constructed: element = document.createElement('div')
PatchInit ==
    /\ sched = SchedInit
    /\ tasks = <<>>
    /\ flushNo = 0
    /\ execLog = <<>>
    /\ submittedAt = <<>>
    /\ cancelled = {}
    /\ lastOp = [op |-> "init", id |-> 0, ok |-> TRUE]
    /\ dom = <<DomNode("element", "div", "")>>
    /\ comp = [element |-> 1, lastVNode |-> Null]
    /\ lastPatch = NoPatch
    /\ hist = NoHist
    /\ context = createContext("light")
    /\ events = <<>>
    /\ cache = NoCache
    /\ store = NewStore
    /\ router = NewRouter

\* updateUI of a component whose render returns the tree t
Render ==
    /\ \E t \in Trees :
        /\ Len(dom) + NodeCount(t) <= MaxNodes
        /\ \E w \in {replaceContents(World(sched, comp, dom, execLog),
                                       comp.lastVNode, t, comp.element)} :
              /\ dom' = w.d
              /\ comp' = [comp EXCEPT !.lastVNode = w.vn]
              /\ lastPatch' = [n |-> IF lastPatch.n < 2 THEN lastPatch.n + 1 ELSE 2,
                               st |-> w.st, err |-> w.err]
    /\ lastOp' = [op |-> "render", id |-> 0, ok |-> TRUE]
    /\ UNCHANGED <<schedVars, hist, context, events, cache, store, router>>

\* updateUI of a component whose memoized render result is returned again
\* (shouldUpdate is false): replaceContents(lastRenderResult), which is the
\* object lastVNode
RenderSame ==
    /\ comp.lastVNode # Null
    /\ \E w \in {replaceContents(World(sched, comp, dom, execLog),
                                   comp.lastVNode, comp.lastVNode, comp.element)} :
          /\ dom' = w.d
          /\ comp' = [comp EXCEPT !.lastVNode = w.vn]
          /\ lastPatch' = [n |-> IF lastPatch.n < 2 THEN lastPatch.n + 1 ELSE 2,
                           st |-> w.st, err |-> w.err]
    /\ lastOp' = [op |-> "renderSame", id |-> 0, ok |-> TRUE]
    /\ UNCHANGED <<schedVars, hist, context, events, cache, store, router>>

NextPatch == Render \/ RenderSame

SpecPatch == PatchInit /\ [][NextPatch]_vars

\* what realizing t from scratch in an empty element gives
FromScratch(t) ==
    Structure(replaceContents(World(SchedInit, NoComponent,
                                    <<DomNode("element", "div", "")>>, <<>>),
                              Null, t, 1).d, 1)

\* a bound VNode as the render function returned it (no el anywhere)
RECURSIVE Fresh(_)
Fresh(vnode) ==
    [vnode EXCEPT !.el = 0,
                  !.children = [i \in DOMAIN vnode.children |-> Fresh(vnode.children[i])]]

\* C1: after every render the structure of the realized tree (tag names,
\* attributes, text, child order) is the one a from-scratch realization of
\* the last rendered tree gives, and no render fails.
C1_PatchEqualsFromScratch ==
    lastPatch.n >= 1 =>
        /\ ~lastPatch.err
        /\ Structure(dom, comp.element) = FromScratch(Fresh(comp.lastVNode))

KeyOrder(children) == [i \in DOMAIN children |-> children[i].key]

\* this step patches a list of uniquely keyed children against a permutation of it
PermutationPatched ==
    /\ comp.lastVNode # Null
    /\ comp.lastVNode.children # <<>>
    /\ \A i \in DOMAIN comp.lastVNode.children : comp.lastVNode.children[i].key # Undefined
    /\ Len(comp'.lastVNode.children) = Len(comp.lastVNode.children)
    /\ Range(KeyOrder(comp'.lastVNode.children)) = Range(KeyOrder(comp.lastVNode.children))

\* C2: patching a uniquely keyed list against a permutation of itself creates
\* no node, removes none, keeps for every key the node that realized it, and
\* leaves the siblings in the order of the new list.
C2_KeyedPermutation ==
    [][PermutationPatched =>
          /\ lastPatch'.st.created = 0
          /\ lastPatch'.st.removed = 0
          /\ \A i \in DOMAIN comp.lastVNode.children :
                \E j \in DOMAIN comp'.lastVNode.children :
                    /\ comp'.lastVNode.children[j].key = comp.lastVNode.children[i].key
                    /\ comp'.lastVNode.children[j].el = comp.lastVNode.children[i].el
          /\ dom'[comp'.lastVNode.el].kids =
                [i \in DOMAIN comp'.lastVNode.children |-> comp'.lastVNode.children[i].el]
      ]_vars

-----------------------------------------------------------------------------
(* The component runtime: Spec *)

Constructed == comp # NoComponent

\* how many calls a behaviour makes on the instance
CallBound == IF Constructed /\ comp.cls # "Counter" THEN MaxOps ELSE MaxCalls

\* the instance was constructed and destroy() was not called (history:
\* hist.destroyedAt is 1 once destroy() was called)
Live == Constructed /\ hist.destroyedAt = 0

\* new HookComponent() is evaluated
Construct ==
    /\ Idle
    /\ ~Constructed
    /\ \E w \in {construct(World(sched, comp, dom, execLog))} :
          /\ sched' = w.s
          /\ comp' = w.c
          /\ dom' = w.d
          /\ submittedAt' = Submitted(w.s)
          /\ lastOp' = [op |-> "construct", id |-> 0, ok |-> TRUE]
    /\ UNCHANGED <<tasks, flushNo, execLog, cancelled, lastPatch, hist, context, events, cache, store, router>>

\* An event handler calls the setter a render returned, with the updater
\* prev => prev + 1 or with a value.  lastOp.ok says whether the argument
\* differs from the value the slot holds.  hist: incs counts the calls of
\* the first turn when all of them had the updater and no update() call
\* shared the turn (pure), expected is what the calls so far amount to when
\* applied in call order, updates counts the update() calls.
SetState ==
    /\ Idle
    /\ Live
    /\ Len(comp.hookStates) >= StateSlot(comp.cls)
    /\ hist.calls < CallBound
    /\ \E newState \in {Update("inc", 0, 0, 0)} \cup
                       {Update("set", v, 0, 0) : v \in 0..MaxSet} :
        \E w \in {setState(World(sched, comp, dom, execLog), newState)} :
           /\ sched' = w.s
           /\ comp' = w.c
           /\ submittedAt' = Submitted(w.s)
           /\ lastOp' = [op |-> "setState", id |-> 0,
                         ok |-> newState.fn = "inc" \/
                                newState.v # comp.hookStates[StateSlot(comp.cls)]]
           /\ hist' = [calls |-> hist.calls + 1,
                       incs |-> IF newState.fn = "inc" THEN hist.incs + 1 ELSE hist.incs,
                       burstAt |-> IF hist.incs = 0 THEN flushNo ELSE hist.burstAt,
                       pure |-> /\ hist.pure
                                /\ newState.fn = "inc"
                                /\ comp.updateScheduled = 0
                                /\ hist.incs > 0 => hist.burstAt = flushNo,
                       expected |-> Apply(newState, hist.expected),
                       updates |-> hist.updates,
                       updAt |-> hist.updAt, updRun |-> hist.updRun,
                       destroyedAt |-> hist.destroyedAt]
    /\ events' = <<>>
    /\ UNCHANGED <<tasks, flushNo, execLog, cancelled, dom, lastPatch, context, cache, store, router>>

\* an event handler (or a parent) calls update().  hist: updRun counts the
\* update() calls made since the last flush, updAt is the number of that flush.
CallUpdate ==
    /\ Idle
    /\ Live
    /\ hist.calls < CallBound
    /\ \E w \in {update(World(sched, comp, dom, execLog))} :
          /\ sched' = w.s
          /\ comp' = w.c
          /\ submittedAt' = Submitted(w.s)
          /\ lastOp' = [op |-> "update", id |-> 0, ok |-> TRUE]
    /\ hist' = [hist EXCEPT !.calls = @ + 1, !.updates = @ + 1,
                            !.pure = @ /\ sched.taskQueue = <<>>,
                            !.updRun = IF hist.updAt = flushNo THEN @ + 1 ELSE 1,
                            !.updAt = flushNo]
    /\ events' = <<>>
    /\ UNCHANGED <<tasks, flushNo, execLog, cancelled, dom, lastPatch, context, cache, store, router>>

Init == SchedInitState

Next == Construct \/ SetState \/ CallUpdate \/ ProcessTaskQueue \/ RunTask

Spec == Init /\ [][Next]_vars

\* no flush is running and no task is queued
Quiescent == Idle /\ sched.taskQueue = <<>>

\* the count the realized tree shows: the text inside the <span>
Rendered == dom[dom[dom[comp.element].kids[1]].kids[1]].text

\* the task scheduled by the setter calls of the first turn has fired
FlushFired ==
    \E i \in DOMAIN execLog : /\ execLog[i].kind = "flushState"
                              /\ execLog[i].flush > hist.burstAt

\* C3: when n calls setState(prev => prev + 1) were made in one turn on a
\* slot holding 0 (and nothing else was asked of the instance), then after the
\* flush in which the scheduled flush task fired the slot holds n and the
\* rendered count reads n.
C3_FunctionalUpdatersBatch ==
    (Constructed /\ Idle /\ hist.pure /\ hist.incs >= 1 /\ FlushFired) =>
        /\ comp.hookStates[1] = hist.incs
        /\ Rendered = ToText(hist.incs)

FlushTasksPending ==
    Cardinality({i \in DOMAIN sched.taskQueue : sched.taskQueue[i].kind = "flushState"})

\* C4: setter calls with a changed value have exactly one flush pending, and
\* once the scheduled work is done the realized tree shows the value all
\* calls made so far amount to (for replacing calls, the value of the last).
C4_OneFlushReflectsAll ==
    /\ (Constructed /\ Idle /\ comp.pendingStateUpdates # <<>>) => FlushTasksPending = 1
    /\ (Constructed /\ Quiescent /\ hist.calls > hist.updates) =>
          /\ comp.hookStates[1] = hist.expected
          /\ Rendered = ToText(hist.expected)

\* C5: a setter call with the value the slot holds queues no scheduler task
\* and schedules no re-render.
C5_SameValueNoOp ==
    [][(lastOp'.op = "setState" /\ ~lastOp'.ok) => sched' = sched]_vars

-----------------------------------------------------------------------------
(* The component runtime with props, effects, memos and a context: SpecHooks *)

\* The props objects passed to the instance: keys a and b; the values are
\* written as texts and stand for 1, null, NaN and the two objects
\* {x: 1, y: 2} and {y: 2, x: 1} (each text is one object: equal texts are
\* the same reference).
PropsDomain ==
    {p \in UNION {[K -> {"1", "null", "NaN", "{x,y}", "{y,x}"}] :
                     K \in SUBSET {"a", "b"}} :
        "b" \in DOMAIN p => p["b"] = "1"}

\* the subclasses of HookComponent instantiated
Classes == {"Memo", "Effect", "Ctx", "Faulty", "Eager", "Refresh"}

\* new C() is evaluated, C one of the subclasses
NewProbe ==
    /\ Idle
    /\ ~Constructed
    /\ \E cls \in Classes :
       \E w \in {construct(World(sched, comp, dom, execLog))} :
          /\ sched' = w.s
          /\ comp' = [w.c EXCEPT !.cls = cls]
          /\ dom' = w.d
          /\ submittedAt' = Submitted(w.s)
          /\ lastOp' = [op |-> "construct", id |-> 0, ok |-> TRUE]
    /\ UNCHANGED <<tasks, flushNo, execLog, cancelled, lastPatch, hist, context, events, cache, store, router>>

\* A parent (or the template that reuses the cached instance) calls
\* updateProps(newProps); same: newProps is the object this.props.
\* lastOp: arg is newProps, ok says that some key or value differs.
UpdateProps ==
    /\ Idle
    /\ Live
    /\ hist.calls < CallBound
    /\ \E newProps \in PropsDomain, same \in BOOLEAN :
        /\ same => newProps = comp.props
        /\ \E w \in {componentUpdateProps(World(sched, comp, dom, execLog),
                                           newProps, same)} :
              /\ sched' = w.s
              /\ comp' = w.c
              /\ submittedAt' = Submitted(w.s)
              /\ lastOp' = [op |-> "updateProps", id |-> 0, arg |-> newProps,
                            ok |-> /\ ~same
                                   /\ \/ DOMAIN newProps # DOMAIN comp.props
                                      \/ \E k \in DOMAIN newProps :
                                            ~StrictEq(newProps[k], comp.props[k])]
    /\ hist' = [hist EXCEPT !.calls = @ + 1]
    /\ events' = <<>>
    /\ UNCHANGED <<tasks, flushNo, execLog, cancelled, dom, lastPatch, context, cache, store, router>>

\* the element is inserted into the document, or taken out of it
Attach ==
    /\ Idle
    /\ Live
    /\ comp' = [comp EXCEPT !.isConnected = ~@]
    /\ lastOp' = [op |-> "attach", id |-> 0, ok |-> TRUE]
    /\ UNCHANGED <<schedVars, dom, lastPatch, hist, context, events, cache, store, router>>

\* the owner of the instance calls destroy()
Destroy ==
    /\ Idle
    /\ Live
    /\ \E w \in {destroy(World(sched, comp, dom, execLog))} :
          /\ sched' = w.s
          /\ comp' = w.c
          /\ context' = w.ctx
          /\ events' = w.ev
          /\ hist' = [hist EXCEPT !.destroyedAt = 1]
    /\ cancelled' = cancelled \cup
                       ({comp.updateTaskId, comp.updateScheduled} \cap DOMAIN sched.taskMap)
    /\ lastOp' = [op |-> "destroy", id |-> 0, ok |-> TRUE]
    /\ UNCHANGED <<tasks, flushNo, execLog, submittedAt, dom, lastPatch, cache, store, router>>

\* other code subscribes a callback: context.subscribers.add(callback)
Subscribe ==
    /\ Idle
    /\ context.made < MaxSubs
    /\ \E beh \in {"ok", "throw", "remove", "add"}, arg \in 1..MaxSubs :
        /\ beh = "remove" \/ arg = 1
        /\ context' = [context EXCEPT
                          !.subscribers = Append(@, Subscriber("plain", beh, arg,
                                                               context.made + 1)),
                          !.made = @ + 1]
    /\ lastOp' = [op |-> "subscribe", id |-> context.made + 1, ok |-> TRUE]
    /\ UNCHANGED <<schedVars, dom, comp, lastPatch, hist, events, cache, store, router>>

\* an event handler calls setContextValue(context, newValue).  lastOp: ok
\* says that newValue is not the current value.
SetContextValue ==
    /\ Idle
    /\ hist.calls < CallBound
    /\ \E newValue \in {"light", "dark"} :
       \E w \in {setContextValue(World(sched, comp, dom, execLog), newValue)} :
          /\ sched' = w.s
          /\ comp' = w.c
          /\ dom' = w.d
          /\ context' = w.ctx
          /\ events' = w.ev
          /\ lastOp' = [op |-> "setContextValue", id |-> 0, arg |-> newValue,
                        ok |-> newValue # context.value]
    /\ hist' = [hist EXCEPT !.calls = @ + 1]
    /\ UNCHANGED <<tasks, flushNo, execLog, submittedAt, cancelled, lastPatch, cache, store, router>>

\* the slot of the Faulty instance's useRef call
RefSlot == 2

\* the value an event handler assigns to ref.current
Clicked == <<"clicked">>

\* an event handler of the Faulty instance assigns to the cell a render
\* gave it: ref.current = Clicked
MutateRef ==
    /\ Idle
    /\ Live
    /\ comp.cls = "Faulty"
    /\ Len(comp.hookStates) >= RefSlot
    /\ comp' = [comp EXCEPT !.hookStates[RefSlot].current = Clicked]
    /\ events' = <<>>
    /\ lastOp' = [op |-> "mutateRef", id |-> 0, ok |-> TRUE]
    /\ UNCHANGED <<schedVars, dom, lastPatch, hist, context, cache, store, router>>

NextHooks ==
    \/ NewProbe \/ UpdateProps \/ CallUpdate \/ SetState \/ Destroy
    \/ MutateRef \/ ProcessTaskQueue \/ RunTask

SpecHooks == Init /\ [][NextHooks]_vars

NextContext ==
    \/ NewProbe \/ Attach \/ Subscribe \/ SetContextValue \/ Destroy
    \/ ProcessTaskQueue \/ RunTask

SpecContext == Init /\ [][NextContext]_vars

\* the updateUI tasks that ran in flush f, and those waiting in the queue
UpdateUIsIn(f) ==
    Cardinality({i \in DOMAIN execLog : /\ execLog[i].kind = "updateUI"
                                        /\ execLog[i].flush = f})
UpdateUIsQueued ==
    Cardinality({i \in DOMAIN sched.taskQueue : sched.taskQueue[i].kind = "updateUI"})

EventsOf(evs, kind, u) ==
    Cardinality({i \in DOMAIN evs : evs[i].kind = kind /\ evs[i].u = u})

SlotKinds(cls) ==
    CASE cls = "Memo" -> <<"memo", "state">>
      [] cls = "Effect" -> <<"state", "effect">>
      [] cls = "Ctx" -> <<"state", "effect", "context">>
      [] cls = "Faulty" -> <<"state", "ref">>
      [] cls = "Eager" -> <<"state", "effect">>
      [] cls = "Refresh" -> <<"state", "effect">>

\* C14: a live instance that was rendered has one slot per hook call, slot N
\* of the kind of the N-th call; in every render the N-th call reads slot N,
\* and useState returns the value the slot held before the render (the one
\* last stored through its setter).
C14_SlotsIndexAligned ==
    [][/\ (hist'.destroyedAt = 0 /\ comp' # NoComponent /\ comp'.hookStates # <<>>) =>
            /\ comp'.hookIndex \in {Len(SlotKinds(comp'.cls)), Len(comp'.hookStates)}
            /\ SubSeq(comp'.slotTypes, 1, Len(SlotKinds(comp'.cls))) = SlotKinds(comp'.cls)
       /\ \A i \in DOMAIN events' :
            /\ events'[i].kind \in {"useState", "useMemo", "useContext"} =>
                    comp'.slotTypes[events'[i].u] =
                        (IF events'[i].kind = "useState" THEN "state"
                         ELSE IF events'[i].kind = "useMemo" THEN "memo" ELSE "context")
            /\ (events'[i].kind = "useState" /\ comp.hookStates # <<>>) =>
                    /\ events'[i].u = StateSlot(comp.cls)
                    /\ events'[i].of = comp.hookStates[events'[i].u]]_vars

\* a render of the Memo instance returned, from its second hook call, the
\* value a setter call had stored
C14_Witness ==
    /\ comp # NoComponent /\ comp.cls = "Memo" /\ hist.calls >= 1
    /\ \E i \in DOMAIN events :
          /\ events[i].kind = "useState" /\ events[i].u = 2 /\ events[i].of = 2
          /\ comp.hookStates[2] = 2

\* C15: a render starts with the cursor at zero (its first hook call reads
\* slot 1), and when it ends with the cursor below the previous slot count
\* the slots from the cursor on are removed, the others kept, and the cleanup
\* of every removed slot that holds one is called.
C15_TrimRunsCleanups ==
    [][(/\ lastOp'.op = "task" /\ hist'.destroyedAt = 0
        /\ EventsOf(events', "render", 0) >= 1) =>
          /\ \E i \in DOMAIN events' : events'[i].kind \in {"useState", "useMemo"}
                                         /\ events'[i].u = 1
          /\ Len(comp'.hookStates) = comp'.hookIndex
          /\ \A i \in DOMAIN comp.hookStates :
                IF i <= comp'.hookIndex
                THEN comp'.slotTypes[i] = comp.slotTypes[i]
                ELSE (/\ comp.slotTypes[i] \in {"effect", "context"}
                      /\ comp.hookStates[i].cleanup.fn # "none") =>
                          EventsOf(events', "cleanup", i) = 1]_vars

\* C16: a render of the Memo instance calls the factory when the slot does
\* not exist yet, or when the deps passed differ from the deps stored in
\* length or at some position (compared with ===, under which NaN differs
\* from itself); otherwise the factory is not called and the cached value is
\* returned.  The value returned is always the factory's value for the deps
\* it was last called with.
C16_MemoRecomputesOnDepsChange ==
    [][(/\ lastOp'.op = "task" /\ hist'.destroyedAt = 0 /\ comp.cls = "Memo"
        /\ EventsOf(events', "render", 0) = 1) =>
          /\ EventsOf(events', "factory", 1) =
                IF \/ comp.hookStates = <<>>
                   \/ Len(comp.hookStates[1].deps) # Len(Values(comp.props))
                   \/ \E i \in DOMAIN Values(comp.props) :
                         \/ Values(comp.props)[i] # comp.hookStates[1].deps[i]
                         \/ Values(comp.props)[i] = "NaN"
                THEN 1 ELSE 0
          /\ \A i \in DOMAIN events' :
                events'[i].kind = "useMemo" =>
                    /\ events'[i].of = comp'.hookStates[1].value
                    /\ EventsOf(events', "factory", 1) = 1 =>
                            events'[i].of = Values(comp.props)
                    /\ EventsOf(events', "factory", 1) = 0 =>
                            events'[i].of = comp.hookStates[1].value]_vars

\* the Memo instance was rendered again with the deps of the render before
\* (two values): the factory was not called
C16_Witness ==
    /\ comp # NoComponent /\ comp.cls = "Memo" /\ lastOp.op = "task"
    /\ EventsOf(events, "render", 0) = 1 /\ EventsOf(events, "factory", 1) = 0
    /\ comp.hookStates[1].deps = <<"null", "1">>

\* The Effect instance c is about to be rendered: its effect has to run,
\* because the slot is new, deps is undefined (now or at the last run), or
\* deps is not deep-equal to the deps of the last run (two values are
\* deep-equal when they are the same value, or the two objects, which have
\* the same keys with the same values).
EffectDue(c) ==
    \/ Len(c.hookStates) < 2
    \/ "a" \notin DOMAIN c.props
    \/ ~c.hookStates[2].deps.def
    \/ Len(Values(c.props)) # Len(c.hookStates[2].deps.v)
    \/ \E i \in DOMAIN Values(c.props) :
          /\ Values(c.props)[i] # c.hookStates[2].deps.v[i]
          /\ {Values(c.props)[i], c.hookStates[2].deps.v[i]} # {"{x,y}", "{y,x}"}

\* C17: in a render the effect callback runs when the slot is new, when deps
\* is undefined, and otherwise exactly when deps is not deep-equal to the
\* deps stored by the last run; when it runs, the cleanup stored by the last
\* run is called once, before the callback, and the new cleanup is stored;
\* when it does not run, neither callback nor cleanup is called.
C17_EffectRunsOnDeepChange ==
    [][(/\ lastOp'.op = "task" /\ hist'.destroyedAt = 0 /\ comp.cls = "Effect"
        /\ EventsOf(events', "render", 0) = 1) =>
          /\ EventsOf(events', "effect", 2) = IF EffectDue(comp) THEN 1 ELSE 0
          /\ EventsOf(events', "cleanup", 2) =
                IF EffectDue(comp) /\ Len(comp.hookStates) >= 2 THEN 1 ELSE 0
          /\ \A i, j \in DOMAIN events' :
                (events'[i].kind = "cleanup" /\ events'[j].kind = "effect") => i < j
          /\ EffectDue(comp) => comp'.hookStates[2].cleanup.fn = "effect"]_vars

\* the closures of the instance that are subscribed to the context
OwnSubscribers(ctx) ==
    {ctx.subscribers[i].sid : i \in {j \in DOMAIN ctx.subscribers :
                                        ctx.subscribers[j].fn = "updateFromContext"}}

\* C18: the instance subscribes one closure, in the render that creates the
\* useContext slot, and no other later: a subscribed closure of the instance
\* is the one the slot's cleanup removes; after destroy() no closure of the
\* instance is subscribed; every useContext call returns the value the
\* context holds at that time.
C18_ContextSubscription ==
    [][/\ (comp' # NoComponent /\ hist'.destroyedAt = 0) =>
            /\ Cardinality(OwnSubscribers(context')) <= 1
            /\ OwnSubscribers(context') # {} =>
                    /\ Len(comp'.hookStates) >= 3
                    /\ OwnSubscribers(context') = {comp'.hookStates[3].cleanup.sid}
            /\ (comp # NoComponent /\ Len(comp.hookStates) >= 3) =>
                    /\ Len(comp'.hookStates) >= 3
                    /\ comp'.hookStates[3] = comp.hookStates[3]
            /\ (comp # NoComponent /\ Len(comp.hookStates) < 3
                                   /\ Len(comp'.hookStates) >= 3) =>
                    OwnSubscribers(context') = {comp'.hookStates[3].cleanup.sid}
       /\ hist'.destroyedAt = 1 => OwnSubscribers(context') = {}
       /\ \A i \in DOMAIN events' :
            events'[i].kind = "useContext" => events'[i].of = context'.value]_vars

\* the instance was subscribed next to another callback, the context value
\* was changed; destroy() has just removed its closure, the other stays
C18_Witness ==
    /\ lastOp.op = "destroy" /\ comp.cls = "Ctx"
    /\ EventsOf(events, "cleanup", 3) = 1
    /\ context.value = "dark" /\ flushNo >= 1
    /\ Len(context.subscribers) = 1 /\ OwnSubscribers(context) = {}

\* C19: setContextValue(context, v) with v not the current value stores v,
\* and the instance, when its closure is subscribed and its element is
\* connected, renders once during the call, useContext returning v; with v
\* the current value the call changes nothing and calls no subscriber.
C19_ContextChangeRerenders ==
    [][lastOp'.op = "setContextValue" =>
          IF lastOp'.ok
          THEN /\ context'.value = lastOp'.arg
               /\ (/\ comp # NoComponent
                   /\ OwnSubscribers(context) # {}
                   /\ comp.isConnected) =>
                      /\ EventsOf(events', "render", 0) = 1
                      /\ \E i \in DOMAIN events' : /\ events'[i].kind = "useContext"
                                                     /\ events'[i].of = lastOp'.arg
          ELSE /\ context' = context
               /\ comp' = comp
               /\ events' = <<>>]_vars

\* the value was changed to "dark" while the instance and another callback
\* were subscribed and the element was connected: the instance rendered
C19_Witness ==
    /\ lastOp.op = "setContextValue" /\ lastOp.ok /\ context.value = "dark"
    /\ comp # NoComponent /\ comp.isConnected
    /\ Len(context.subscribers) = 2
    /\ EventsOf(events, "render", 0) = 1
    /\ \E i \in DOMAIN events : events[i].kind = "useContext" /\ events[i].of = "dark"

\* C20: a setContextValue call that changes the value calls every closure
\* that was subscribed when it started exactly once, whatever the closures
\* called do to the set (remove themselves or others, add new ones, throw),
\* and calls no closure added during the call.
C20_SnapshotNotification ==
    [][(lastOp'.op = "setContextValue" /\ lastOp'.ok) =>
          \A sid \in 1..context'.made :
              EventsOf(events', "notify", sid) =
                  IF \E i \in DOMAIN context.subscribers :
                         context.subscribers[i].sid = sid
                  THEN 1 ELSE 0]_vars

\* the first of two subscribed callbacks removed the second during the
\* notification: both were called
C20_Witness ==
    /\ lastOp.op = "setContextValue" /\ lastOp.ok
    /\ Len(context.subscribers) = 1
    /\ context.subscribers[1].sid = 1 /\ context.subscribers[1].beh = "remove"
    /\ context.subscribers[1].arg = 2
    /\ EventsOf(events, "notify", 1) = 1 /\ EventsOf(events, "notify", 2) = 1

-----------------------------------------------------------------------------
(* Render errors *)

\* the task at the head of the running flush calls the render function of
\* an instance whose render function throws
RenderThrows ==
    /\ tasks # <<>>
    /\ comp # NoComponent
    /\ comp.cls = "Faulty"
    /\ "b" \in DOMAIN comp.props
    /\ \/ Head(tasks).kind = "updateUI"
       \/ Head(tasks).kind = "hookInit" /\ comp.initialRenderComplete

\* C21: an exception thrown by the render function is not swallowed by the
\* component: it leaves the task (nothing of the task after the render call
\* is executed: no DOM call, lastVNode is not assigned) and reaches the catch
\* of the flush, which logs it; a task whose render returns logs no error.
C21_RenderErrorPropagates ==
    [][lastOp'.op = "task" /\ tasks # <<>> /\ Head(tasks).kind \in {"updateUI", "hookInit"}
       => IF RenderThrows
          THEN /\ EventsOf(events', "error", 0) = 1
               /\ dom' = dom
               /\ comp'.lastVNode = comp.lastVNode
          ELSE EventsOf(events', "error", 0) = 0]_vars

C21_Witness ==
    /\ lastOp.op = "task"
    /\ comp # NoComponent
    /\ comp.cls = "Faulty"
    /\ comp.lastVNode # Null
    /\ EventsOf(events, "error", 0) = 1

-----------------------------------------------------------------------------
(* Construction and the first render *)

\* C22: the constructor calls no render function and no hook and leaves the
\* element without content, with one updateUI task queued; the step that
\* gives the instance its first content (Constructed -> Mounted) is the run
\* of that task, in the first flush started after the constructor was called.
C22_FirstRenderDeferred ==
    [][/\ lastOp'.op = "construct" =>
            /\ events' = events
            /\ comp'.hookStates = <<>>
            /\ comp'.lastVNode = Null
            /\ dom'[comp'.element].kids = <<>>
            /\ UpdateUIsQueued' = 1
            /\ submittedAt'[comp'.updateScheduled] = flushNo
       /\ (comp # NoComponent /\ comp.lastVNode = Null /\ comp'.lastVNode # Null) =>
            /\ lastOp'.op = "task"
            /\ Head(tasks).kind = "updateUI"
            /\ Head(tasks).id = comp.updateScheduled
            /\ flushNo = submittedAt[Head(tasks).id] + 1
            /\ EventsOf(events', "render", 0) = 1
            /\ dom'[comp'.element].kids # <<>>]_vars

\* the first render was made by the task of the first flush, after calls
\* made on the instance before that flush
C22_Witness ==
    /\ lastOp.op = "task"
    /\ flushNo = 1
    /\ comp # NoComponent /\ comp.lastVNode # Null
    /\ hist.calls >= 1
    /\ Len(tasks) = 1
    /\ EventsOf(events, "render", 0) = 1

-----------------------------------------------------------------------------
(* Patching a tree against itself *)

\* the bindings of the tree are those of a realization: every el is the
\* platform node of its VNode, under the el of the parent, in child order
RECURSIVE Bound(_, _, _)
Bound(d, vnode, parent) ==
    /\ vnode.el \in DOMAIN d
    /\ d[vnode.el].parent = parent
    /\ d[vnode.el].kind = vnode.type
    /\ d[vnode.el].kids = [i \in DOMAIN vnode.children |-> vnode.children[i].el]
    /\ \A i \in DOMAIN vnode.children : Bound(d, vnode.children[i], vnode.el)

\* C23: patch(t, t), for a tree t bound to its realization, sets and removes
\* no attribute, writes no text, creates and removes no node, throws nothing
\* and leaves the structure of the realized tree and the tree t as they were.
C23_SelfPatchIdempotent ==
    [][lastOp'.op = "renderSame" /\ Bound(dom, comp.lastVNode, comp.element) =>
          /\ ~lastPatch'.err
          /\ lastPatch'.st.attrs = 0
          /\ lastPatch'.st.texts = 0
          /\ lastPatch'.st.created = 0
          /\ lastPatch'.st.removed = 0
          /\ Structure(dom', comp.element) = Structure(dom, comp.element)
          /\ comp'.lastVNode = comp.lastVNode]_vars

-----------------------------------------------------------------------------
(* Keyed children that keep their relative order *)

\* the keys of the list that also occur in the other list, in list order
KeysAlsoIn(children, others) ==
    SelectSeq(KeyOrder(children), LAMBDA k : k \in Range(KeyOrder(others)))

\* this step patches a bound list of keyed children against a keyed list in
\* which the children of both lists have the same relative order
InOrderPatched ==
    /\ lastOp'.op = "render"
    /\ comp.lastVNode # Null
    /\ Bound(dom, comp.lastVNode, comp.element)
    /\ \A i \in DOMAIN comp.lastVNode.children : comp.lastVNode.children[i].key # Undefined
    /\ \A i \in DOMAIN comp'.lastVNode.children : comp'.lastVNode.children[i].key # Undefined
    /\ KeysAlsoIn(comp.lastVNode.children, comp'.lastVNode.children) # <<>>
    /\ KeysAlsoIn(comp.lastVNode.children, comp'.lastVNode.children)
          = KeysAlsoIn(comp'.lastVNode.children, comp.lastVNode.children)

\* C24: when the children matched by key have the same relative order in the
\* old and in the new list, no realized node is moved: no move is performed,
\* and the nodes of the matched children keep their relative order under the
\* parent.
C24_InOrderUntouched ==
    [][InOrderPatched =>
          /\ lastPatch'.st.moved = 0
          /\ \A i, j \in DOMAIN comp.lastVNode.children :
                (/\ i < j
                 /\ comp.lastVNode.children[i].key \in Range(KeyOrder(comp'.lastVNode.children))
                 /\ comp.lastVNode.children[j].key \in Range(KeyOrder(comp'.lastVNode.children)))
                => /\ comp.lastVNode.children[i].el \in Range(dom'[comp.lastVNode.el].kids)
                   /\ comp.lastVNode.children[j].el \in Range(dom'[comp.lastVNode.el].kids)
                   /\ IndexOf(dom'[comp.lastVNode.el].kids, comp.lastVNode.children[i].el)
                        < IndexOf(dom'[comp.lastVNode.el].kids, comp.lastVNode.children[j].el)
      ]_vars

-----------------------------------------------------------------------------
(* Children without keys *)

\* this step patches a bound list of children without keys against a list
\* without keys of the same length whose i-th child has the type and tag
\* name of the i-th old child
PositionalPatched ==
    /\ lastOp'.op = "render"
    /\ comp.lastVNode # Null
    /\ Bound(dom, comp.lastVNode, comp.element)
    /\ comp.lastVNode.children # <<>>
    /\ Len(comp'.lastVNode.children) = Len(comp.lastVNode.children)
    /\ \A i \in DOMAIN comp.lastVNode.children :
          /\ comp.lastVNode.children[i].key = Undefined
          /\ comp'.lastVNode.children[i].key = Undefined
          /\ comp'.lastVNode.children[i].type = comp.lastVNode.children[i].type
          /\ comp'.lastVNode.children[i].tagName = comp.lastVNode.children[i].tagName

\* C25: children without keys are matched by position: the node realized at
\* position i stays at position i and is the node of the new child i, no node
\* is created or removed, and the content of the nodes is that of the new list.
C25_UnkeyedPositional ==
    [][PositionalPatched =>
          /\ ~lastPatch'.err
          /\ lastPatch'.st.created = 0
          /\ lastPatch'.st.removed = 0
          /\ dom'[comp.lastVNode.el].kids = dom[comp.lastVNode.el].kids
          /\ \A i \in DOMAIN comp'.lastVNode.children :
                comp'.lastVNode.children[i].el = dom[comp.lastVNode.el].kids[i]
          /\ Structure(dom', comp.element) = FromScratch(Fresh(comp'.lastVNode))
      ]_vars

-----------------------------------------------------------------------------
(* utils/jsx-vdom: the component cache *)

\* `${tagName}-${position}`
getComponentKey(tagName, position) == <<tagName, position>>

\* a place of a template where a component stands: a registered tag at a
\* tree path, or a component instance interpolated as a value
Tag(tagName, path, props) ==
    [kind |-> "tag", tagName |-> tagName, path |-> path, props |-> props, component |-> 0]
Value(component, path) ==
    [kind |-> "value", tagName |-> "component-placeholder", path |-> path,
     props |-> [index |-> "0"], component |-> component]

\* the templates of the owners, in document order:
\*   list  html`<div><x-a label=${label}></x-a><x-b label=${label}></x-b></div>`
\*   item  html`<div><x-a label=${label}></x-a></div>`
\*   slot  html`<div>${child}<x-a label=${label}></x-a></div>`
Template(owner, label) ==
    CASE owner = "list" -> <<Tag("x-a", "0-0", [label |-> label]),
                             Tag("x-b", "0-1", [label |-> label])>>
      [] owner = "item" -> <<Tag("x-a", "0-0", [label |-> label])>>
      [] owner = "slot" -> <<Value(1, "0-0"), Tag("x-a", "0-1", [label |-> label])>>

\* { type: 'component', component, props, componentKey }
ComponentNode(component, props, componentKey) ==
    [component |-> component, props |-> props, componentKey |-> componentKey]

\* a registered tag: "Reuse existing component if available", otherwise
\* instance = factory(normalizedProps); componentCache.set(componentKey, instance)
registeredComponent(c, pos, componentKey) ==
    IF componentKey \in DOMAIN c.entries
    THEN [c |-> c,
          node |-> ComponentNode(c.entries[componentKey], pos.props, componentKey)]
    ELSE [c |-> [c EXCEPT !.instances = Append(@, Instance(pos.props)),
                          !.entries = (componentKey :> Len(c.instances) + 1) @@ @],
          node |-> ComponentNode(Len(c.instances) + 1, pos.props, componentKey)]

\* a component-placeholder: componentKey = `explicit-component-${componentCounter++}`
explicitComponent(c, pos) ==
    [c |-> [c EXCEPT !.componentCounter = @ + 1],
     node |-> ComponentNode(pos.component, pos.props,
                            <<"explicit-component", ToText(c.componentCounter)>>)]

\* html`...`: the component nodes of the tree the template gives, in
\* document order (R.c the cache, R.nodes the nodes so far)
RECURSIVE html(_, _)
html(R, positions) ==
    IF positions = <<>> THEN R
    ELSE Then(IF Head(positions).kind = "value"
              THEN explicitComponent(R.c, Head(positions))
              ELSE registeredComponent(R.c, Head(positions),
                       getComponentKey(Head(positions).tagName, Head(positions).path)),
              LAMBDA r : html([c |-> r.c, nodes |-> Append(R.nodes, r.node)],
                              Tail(positions)))

\* Component.updateProps on a cached instance
instanceUpdateProps(c, component, newProps) ==
    IF shallowEqual(c.instances[component].props, newProps, FALSE) THEN c
    ELSE [c EXCEPT !.instances[component].props = newProps]

\* patch of the new component nodes against those of the last tree: a node
\* whose componentKey an old node has is patched against it ("Just update
\* props if needed"), any other is realized by createRealNode, which passes
\* no props (getElement(), update())
RECURSIVE patchComponents(_, _, _)
patchComponents(c, oldNodes, newNodes) ==
    IF newNodes = <<>> THEN c
    ELSE patchComponents(
             IF \E i \in DOMAIN oldNodes :
                   oldNodes[i].componentKey = Head(newNodes).componentKey
             THEN instanceUpdateProps(c, Head(newNodes).component, Head(newNodes).props)
             ELSE c,
             oldNodes, Tail(newNodes))

\* clearComponentCache()
clearComponentCache(c) == [c EXCEPT !.entries = <<>>, !.componentCounter = 0]

\* renders of templates made in a behaviour
MaxRenders == 3

\* updateUI of an owner: its render function evaluates the template, and
\* replaceContents patches the tree against the last one
RenderTemplate ==
    /\ cache.renders < MaxRenders
    /\ \E owner \in Owners, label \in {"1", "2"} :
       \E R \in {html([c |-> cache, nodes |-> <<>>], Template(owner, label))} :
          /\ cache' = [patchComponents(R.c, cache.trees[owner], R.nodes) EXCEPT
                          !.trees[owner] = R.nodes, !.renders = @ + 1]
          /\ lastOp' = [op |-> "html", id |-> 0, ok |-> TRUE, arg |-> owner]
    /\ UNCHANGED <<schedVars, dom, comp, lastPatch, hist, context, events, store, router>>

\* Router.navigate(path) to another path: clearComponentCache(); the route
\* then creates its page anew (no owner has a last tree)
Navigate ==
    /\ cache' = [clearComponentCache(cache) EXCEPT !.trees = [o \in Owners |-> <<>>]]
    /\ lastOp' = [op |-> "navigate", id |-> 0, ok |-> TRUE]
    /\ UNCHANGED <<schedVars, dom, comp, lastPatch, hist, context, events, store, router>>

NextCache == RenderTemplate \/ Navigate

SpecCache == Init /\ [][NextCache]_vars

-----------------------------------------------------------------------------
(* The component cache: keys, collisions, navigation *)

\* this step is a render of the owner
RenderedBy(owner) ==
    /\ cache'.renders = cache.renders + 1
    /\ lastOp'.op = "html"
    /\ lastOp'.arg = owner

C27_CollisionLastWriterWins ==
    [][\A owner \in Owners :
          RenderedBy(owner) =>
              \A i \in DOMAIN cache'.trees[owner] :
                  cache'.trees[owner][i].componentKey \in DOMAIN cache.entries =>
                      /\ cache'.entries[cache'.trees[owner][i].componentKey]
                            = cache'.trees[owner][i].component
                      /\ cache'.instances[cache'.trees[owner][i].component].props
                            = cache'.trees[owner][i].props]_vars

\* C28: navigation calls destroy() exactly once on every instance that is in
\* the cache and leaves the cache empty; a render that meets a key of the
\* emptied cache creates a new instance.
C28_NavigationDestroysCached ==
    [][/\ lastOp'.op = "navigate" =>
            /\ cache'.entries = <<>>
            /\ \A k \in DOMAIN cache.entries :
                  cache'.instances[cache.entries[k]].destroyed
                     = cache.instances[cache.entries[k]].destroyed + 1
       /\ \A owner \in Owners :
            RenderedBy(owner) =>
                \A i \in DOMAIN cache'.trees[owner] :
                    (/\ cache'.trees[owner][i].componentKey[1] # "explicit-component"
                     /\ cache'.trees[owner][i].componentKey \notin DOMAIN cache.entries)
                    => cache'.trees[owner][i].component > Len(cache.instances)]_vars

-----------------------------------------------------------------------------
(* Store: state, subscribers, setState, subscribe *)

\* subscribe calls made in a behaviour
MaxStoreSubs == 3

\* { ...state, ...newState }
Merge(state, newState) ==
    [k \in DOMAIN state \cup DOMAIN newState |->
        IF k \in DOMAIN newState THEN newState[k] ELSE state[k]]

\* the Partial<T> arguments of setState
Partials == {("a" :> 0), ("a" :> 1), ("b" :> 0), ("a" :> 1 @@ "b" :> 0)}

\* the callbacks subscribed.  "ok" keeps the state it is called with;
\* "set" also completes it, if (state.a === 1 && state.b === 0)
\* store.setState({b: 1}); "unsub" also calls its own unsubscribe function
Behaviours == {"ok", "set", "unsub"}

\* the unsubscribe function subscribe returned for callback id
unsubscribe(st, id) ==
    [st EXCEPT !.subscribers = SelectSeq(@, LAMBDA sub : sub.id # id)]

RECURSIVE Store_setState(_, _), forEach(_, _, _, _)

\* callback(stateCopy) for one subscriber
callback(st, sub, stateCopy) ==
    Then([st EXCEPT !.delivered[sub.id] = stateCopy], LAMBDA st1 :
         CASE sub.beh = "set" /\ stateCopy.a = 1 /\ stateCopy.b = 0 ->
                  Store_setState(st1, ("b" :> 1))
           [] sub.beh = "unsub" -> unsubscribe(st1, sub.id)
           [] OTHER -> st1)

\* array.forEach((callback) => callback(stateCopy)) from index i on; array
\* is the array object this.subscribers held when forEach was called
forEach(st, array, i, stateCopy) ==
    IF i > Len(array) THEN st
    ELSE forEach(callback(st, array[i], stateCopy), array, i + 1, stateCopy)

\* Store.notifySubscribers
notifySubscribers(st) == forEach(st, st.subscribers, 1, st.state)

\* Store.setState(newState)
Store_setState(st, newState) ==
    notifySubscribers([st EXCEPT !.state = Merge(st.state, newState)])

\* Store.getState
getState(st) == st.state

\* store.subscribe(callback)
StoreSubscribe ==
    /\ store.made < MaxStoreSubs
    /\ \E beh \in Behaviours :
          store' = [store EXCEPT
                       !.subscribers = Append(@, [id |-> store.made + 1, beh |-> beh]),
                       !.made = @ + 1,
                       !.delivered = Append(@, NotDelivered)]
    /\ lastOp' = [op |-> "subscribe", id |-> store.made + 1, ok |-> TRUE]
    /\ UNCHANGED <<schedVars, dom, comp, lastPatch, hist, context, events, cache, router>>

\* the unsubscribe function of a subscribed callback is called
StoreUnsubscribe ==
    /\ \E i \in DOMAIN store.subscribers :
          /\ store' = unsubscribe(store, store.subscribers[i].id)
          /\ lastOp' = [op |-> "unsubscribe", id |-> store.subscribers[i].id, ok |-> TRUE]
    /\ UNCHANGED <<schedVars, dom, comp, lastPatch, hist, context, events, cache, router>>

\* other code calls store.setState(newState)
StoreSetState ==
    /\ \E newState \in Partials :
          /\ store' = Store_setState(store, newState)
          /\ lastOp' = [op |-> "storeSetState", id |-> 0, ok |-> TRUE, arg |-> newState]
    /\ UNCHANGED <<schedVars, dom, comp, lastPatch, hist, context, events, cache, router>>

NextStore == StoreSubscribe \/ StoreUnsubscribe \/ StoreSetState

SpecStore == Init /\ [][NextStore]_vars

\* C30: when a setState call made from outside returns, the state is the
\* state before with newState merged in (and what the subscribers set on
\* top of it), and every subscriber still subscribed was last called with
\* a state equal to getState().
C30_SubscribersSeeFinalState ==
    [][lastOp'.op = "storeSetState" =>
          /\ \A k \in DOMAIN store.state :
                \/ store'.state[k] = Merge(store.state, lastOp'.arg)[k]
                \/ k = "b" /\ store'.state[k] = 1
          /\ \A i \in DOMAIN store'.subscribers :
                store'.delivered[store'.subscribers[i].id] = getState(store')]_vars

-----------------------------------------------------------------------------
(* State updates that wait for a flush *)

\* the tasks not yet executed: the queue and the rest of the running flush
PendingTasks ==
    [i \in 1..(Len(sched.taskQueue) + Len(tasks)) |->
        IF i <= Len(sched.taskQueue) THEN sched.taskQueue[i]
        ELSE tasks[i - Len(sched.taskQueue)]]

\* C31: while a live instance has updates in pendingStateUpdates, the task
\* that flushes them is pending, and it is the one updateTaskId names.
C31_NoUpdateStranded ==
    (/\ comp # NoComponent /\ hist.destroyedAt = 0
     /\ comp.pendingStateUpdates # <<>>) =>
        \E i \in DOMAIN PendingTasks :
            /\ PendingTasks[i].kind = "flushState"
            /\ PendingTasks[i].id = comp.updateTaskId

\* C32: once no task is pending and no flush is running, the realized tree
\* of a mounted instance shows the value its state slot holds (its last
\* render came after the last application of state updates).
C32_QuiescentShowsLatest ==
    (/\ Constructed /\ hist.destroyedAt = 0 /\ Quiescent
     /\ comp.lastVNode # Null /\ comp.cls = "Counter") =>
        Rendered = ToText(comp.hookStates[1])

-----------------------------------------------------------------------------
(* Bindings after a patch *)

\* the binding of every node of the tree is a platform node of its kind and
\* tag, with its text, placed under the binding of the node's parent
RECURSIVE Realizes(_, _, _)
Realizes(d, vnode, parent) ==
    /\ vnode.el \in DOMAIN d
    /\ d[vnode.el].parent = parent
    /\ d[vnode.el].kind = vnode.type
    /\ d[vnode.el].tag = vnode.tagName
    /\ d[vnode.el].text = vnode.text
    /\ \A i \in DOMAIN vnode.children : Realizes(d, vnode.children[i], vnode.el)

\* C33: when replaceContents has patched the last tree into the new one and
\* returned, every node of the new tree is bound to the platform node that
\* realizes it: a node of its kind and tag under its parent's node, also
\* where a matched child was replaced because its kind or tag changed.
C33_BindingsCurrent ==
    [][(lastOp'.op = "render" /\ ~lastPatch'.err /\ comp.lastVNode # Null) =>
          Realizes(dom', comp'.lastVNode, comp'.element)]_vars

\* C34: updateScheduled of a live instance is set only while the updateUI
\* task it names is pending; in particular it is cleared when the render of
\* that task throws, so that a later update() schedules a render again.
C34_MarkerMeansPending ==
    (/\ comp # NoComponent /\ hist.destroyedAt = 0
     /\ comp.updateScheduled # 0) =>
        \E i \in DOMAIN PendingTasks :
            /\ PendingTasks[i].kind = "updateUI"
            /\ PendingTasks[i].id = comp.updateScheduled

\* C35: once destroy() has returned, no step renders the instance and no
\* step changes its hook state.
C35_NothingAfterDestroy ==
    [][(comp # NoComponent /\ hist.destroyedAt = 1) =>
          /\ EventsOf(events', "render", 0) = 0
          /\ comp'.hookStates = comp.hookStates]_vars

\* C36: after an update() call on a live instance a render is still to
\* begin: when the call has returned (the handler that made it, or the task
\* in which the instance's code made it, is over) a task that renders the
\* instance is pending.  (Stated for an instance whose marker updateScheduled
\* names a pending task or none before the step; C34 is about the others.)
C36_UpdateNeverLost ==
    [][(/\ comp' # NoComponent /\ hist'.destroyedAt = 0
        /\ C34_MarkerMeansPending
        /\ \/ lastOp'.op = "update"
           \/ lastOp'.op = "task" /\ EventsOf(events', "update", 0) >= 1) =>
          \E i \in 1..(Len(sched'.taskQueue) + Len(tasks')) :
              (IF i <= Len(sched'.taskQueue) THEN sched'.taskQueue[i]
               ELSE tasks'[i - Len(sched'.taskQueue)]).kind \in {"updateUI", "hookInit"}]_vars

\* C37: the task the HookComponent constructor scheduled does not invoke
\* render when the task of the Component constructor has already made the
\* initial render: the initial mount renders once.
C37_InitialRenderOnce ==
    [][(/\ lastOp'.op = "task" /\ tasks # <<>>
        /\ Head(tasks).kind = "hookInit"
        /\ comp # NoComponent /\ comp.lastVNode # Null) =>
          EventsOf(events', "render", 0) = 0]_vars

\* C38: after setContextValue has changed the value, the realized tree of a
\* mounted, connected instance whose closure is subscribed shows the new
\* value (the VNode its render returned was patched into its element).
C38_ContextRenderApplied ==
    [][(/\ lastOp'.op = "setContextValue" /\ lastOp'.ok
        /\ comp # NoComponent /\ hist.destroyedAt = 0 /\ comp.cls = "Ctx"
        /\ OwnSubscribers(context) # {} /\ comp.isConnected
        /\ comp.lastVNode # Null) =>
          Rendered' = context'.value]_vars

-----------------------------------------------------------------------------
(* Every task runs once, in the flush after its submission *)

\* what the history says at every moment: no task (and no update of a batch)
\* ran twice; a task not cancelled has run, is running or is queued; a task
\* ran in the flush that followed its submission; a task submitted since
\* the running or last flush started (by a handler or by a task of the
\* flush) is in neither, and when not cancelled it is queued with a frame
\* requested for it.
OnceInNextFlush ==
    /\ \A i, j \in DOMAIN execLog :
          (execLog[i].id = execLog[j].id /\ execLog[i].u = execLog[j].u) => i = j
    /\ \A t \in DOMAIN submittedAt :
          /\ t \notin cancelled => t \in ExecutedIds \cup RunningIds \cup QueuedIds
          /\ submittedAt[t] = flushNo =>
                /\ t \notin ExecutedIds \cup RunningIds
                /\ t \notin cancelled =>
                      t \in QueuedIds /\ sched.frameScheduled /\ sched.rafCallbacks = 1
    /\ \A i \in DOMAIN execLog : execLog[i].flush = submittedAt[execLog[i].id] + 1

\* every task passed to scheduleTask so far was executed or cancelled
AllDone == \A t \in DOMAIN submittedAt : t \in ExecutedIds \/ t \in cancelled

\* C39: every task passed to scheduleTask and never cancelled is executed
\* (whatever is passed, the moment comes when all tasks passed so far were
\* executed or cancelled), and exactly once; a task scheduled by a task of
\* a running flush is not executed in that flush but in the next one, for
\* which a frame is requested.
C39_ExactlyOnceNextFlush == []OnceInNextFlush /\ []<>AllDone

\* a task of flush 1 called scheduleTask; the task it scheduled ran in flush 2
C39_Witness ==
    \E i, j \in DOMAIN execLog :
        /\ execLog[i].beh = "spawn" /\ execLog[i].flush = 1
        /\ submittedAt[execLog[j].id] = 1 /\ execLog[j].id = execLog[i].id + 1
        /\ execLog[j].flush = 2

-----------------------------------------------------------------------------
(* Router: navigate, render, cleanup *)

\* navigate calls made in a behaviour
MaxNavigations == 3

\* Router.cleanup: destroy the instance of the current route, if any
Router_cleanup(r) ==
    IF r.currentRoute # "" /\ r.currentInstance[r.currentRoute] # 0
    THEN [r EXCEPT !.instances[r.currentInstance[r.currentRoute]].destroyed = @ + 1,
                   !.currentInstance[r.currentRoute] = 0]
    ELSE r

\* Router.render from "Store reference to the component instance" on, with
\* componentInstance a new instance of the route's component:
\* route.currentInstance = componentInstance; container.innerHTML = '';
\* container.appendChild(element).  (What follows the next await only
\* changes CSS classes.)
Router_mount(r, route) ==
    [r EXCEPT !.instances = Append(@, [route |-> route, destroyed |-> 0]),
              !.currentInstance[route] = Len(r.instances) + 1,
              !.container = Len(r.instances) + 1]

\* Router.render from "this.cleanup()" up to the await of the import (a
\* lazy route) or to the end (the factory is called at once)
Router_enter(r, route) ==
    Then(Router_cleanup(r), LAMBDA r1 :
         IF Lazy(route)
         THEN [r1 EXCEPT !.currentRoute = route,
                         !.runs = Append(@, [route |-> route, pc |-> "load"])]
         ELSE Router_mount([r1 EXCEPT !.currentRoute = route], route))

\* Router.render from its start: the route of window.location.pathname;
\* with an instance current it suspends for the exit animation (a frame,
\* then the transition time)
Router_render(r) ==
    IF r.currentRoute # "" /\ r.currentInstance[r.currentRoute] # 0
    THEN [r EXCEPT !.runs = Append(@, [route |-> r.location, pc |-> "exit"])]
    ELSE Router_enter(r, r.location)

\* seq without its element at index i
Except(seq, i) == SubSeq(seq, 1, i - 1) \o SubSeq(seq, i + 1, Len(seq))

\* the first render call suspended at pc: frame callbacks and timers of one
\* delay fire in the order they were requested
First(runs, pc) ==
    CHOOSE i \in DOMAIN runs :
        runs[i].pc = pc /\ \A j \in 1..(i - 1) : runs[j].pc # pc

\* router.init(): the first render
RouterInit ==
    /\ router.navigations = 0
    /\ router.instances = <<>> /\ router.runs = <<>>
    /\ router' = [Router_render(router) EXCEPT !.navigations = 1]
    /\ lastOp' = [op |-> "routerInit", id |-> 0, ok |-> TRUE]
    /\ UNCHANGED <<schedVars, dom, comp, lastPatch, hist, context, events, cache, store>>

\* router.navigate(path), from a link or from popstate
RouterNavigate ==
    /\ router.navigations \in 1..MaxNavigations
    /\ \E path \in Paths :
          /\ router' = [Router_render([router EXCEPT !.location = path])
                           EXCEPT !.navigations = @ + 1]
          /\ cache' = IF router.location # path THEN clearComponentCache(cache)
                      ELSE cache
          /\ lastOp' = [op |-> "navigate", id |-> 0, ok |-> TRUE, arg |-> path]
    /\ UNCHANGED <<schedVars, dom, comp, lastPatch, hist, context, events, store>>

\* the exit animation a render call waits for is over
ExitDone ==
    /\ \E i \in DOMAIN router.runs : router.runs[i].pc = "exit"
    /\ \E i \in {First(router.runs, "exit")} :
          router' = Router_enter([router EXCEPT !.runs = Except(@, i)],
                                 router.runs[i].route)
    /\ lastOp' = [op |-> "exitDone", id |-> 0, ok |-> TRUE]
    /\ UNCHANGED <<schedVars, dom, comp, lastPatch, hist, context, events, cache, store>>

\* the import a render call waits for is resolved (at any time)
LoadDone ==
    /\ \E i \in DOMAIN router.runs :
          /\ router.runs[i].pc = "load"
          /\ router' = Router_mount([router EXCEPT !.runs = Except(@, i)],
                                    router.runs[i].route)
    /\ lastOp' = [op |-> "loadDone", id |-> 0, ok |-> TRUE]
    /\ UNCHANGED <<schedVars, dom, comp, lastPatch, hist, context, events, cache, store>>

NextRouter == RouterInit \/ RouterNavigate \/ ExitDone \/ LoadDone

SpecRouter == Init /\ [][NextRouter]_vars

\* C40: once every render call of the navigations made has run to its end,
\* the container holds one page instance, the one of the route of the path
\* navigated to last, it was not destroyed, and destroy() was called on
\* every other page instance the router constructed.
C40_LastNavigationWins ==
    (router.navigations >= 1 /\ router.runs = <<>>) =>
        /\ router.container \in DOMAIN router.instances
        /\ router.instances[router.container].route = router.location
        /\ router.instances[router.container].destroyed = 0
        /\ \A i \in DOMAIN router.instances :
              i # router.container => router.instances[i].destroyed >= 1

=============================================================================
